---- MODULE Spec2Model ----
(***************************************************************************)
(* A state-machine model of the ARM emulator core (emu.c, jazelle.c):      *)
(* the processor state arm_state_t, the Jazelle fast-stack cache, the      *)
(* exclusive monitor and the exception pipeline.                           *)
(*                                                                         *)
(* Representation.  The processor is one record, cpu, with the fields of   *)
(* arm_state_t; the bytes behind cpu->memory are the field cpu.memory.  A  *)
(* C function f(cpu, ...) that changes the processor is an operator that   *)
(* returns the changed record; one that also returns a value returns       *)
(* [cpu |-> ..., value |-> ...].                                           *)
(*   - Flag registers whose bits the source names as 1 << k (the feature   *)
(*     set, supported_isas, SCTLR, SCR, HCR) are sets of bit positions k.  *)
(*   - 32-bit words (register contents, xPSR images) are integers; a word  *)
(*     with bit 31 set is held as the negative two's-complement integer    *)
(*     of the same bit pattern, because the integers of TLC are 32         *)
(*     bits wide.  \div and % are floor division and modulus, so           *)
(*     (v \div 2^k) % 2 is bit k of v for either sign.                     *)
(***************************************************************************)
EXTENDS Integers, Sequences, FiniteSets, TLC

(***************************************************************************)
(* Bounds of the model.                                                    *)
(***************************************************************************)
\* deepest Jazelle operand stack explored (words)
MaxJDepth == 5
\* number of operand-stack operations in a behaviour
MaxJOps == 8
\* instructions in a behaviour of the exclusive-monitor specification
MaxXSteps == 3
\* instructions and interrupts in a behaviour of the exception specification
MaxESteps == 3

(***************************************************************************)
(* Constants of the source.                                                *)
(***************************************************************************)
\* arm.h: arm_version_t
ARMV1 == 1
ARMV2 == 2
ARMV3 == 3
ARMV4 == 4
ARMV5 == 5
ARMV6 == 6
ARMV7 == 7
ARMV8 == 8
ARMV81 == 9
ARMV82 == 10

\* arm.h: arm_instruction_set_t
ISA_AARCH26 == 1
ISA_AARCH32 == 2
ISA_THUMB32 == 3
ISA_JAZELLE == 4
ISA_THUMBEE == 5
ISA_AARCH64 == 6

\* arm.h: arm_feature_t (bit positions of config.features)
FEATURE_ARM26 == 3
FEATURE_ARM32 == 4
FEATURE_THUMB == 6
FEATURE_ENH_DSP == 7
FEATURE_JAZELLE == 9
FEATURE_THUMB2 == 11
FEATURE_SECURITY == 12
FEATURE_VIRTUALIZATION == 13
FEATURE_ARM64 == 14

\* arm.h: regnum_t (indices of cpu->r)
R13_HYP == 15
R14_IRQ == 16
R13_IRQ == 17
R14_SVC == 18
R13_SVC == 19
R14_ABT == 20
R13_ABT == 21
R14_UND == 22
R13_UND == 23
R8_FIQ == 24
R9_FIQ == 25
R10_FIQ == 26
R11_FIQ == 27
R12_FIQ == 28
R13_FIQ == 29
R14_FIQ == 30
PC == 35
R14_MON == 36
R13_MON == 37
ELR_EL1 == 38
ELR_EL2 == 39
ELR_EL3 == 40
SPSR_EL1 == 41
SPSR_EL2 == 42
SPSR_EL3 == 43
SPSR_ABT == 44
SPSR_UND == 45
SPSR_IRQ == 46
SPSR_FIQ == 47
REG_COUNT == 48
ELR_HYP == ELR_EL2
SPSR_SVC == SPSR_EL1
SPSR_HYP == SPSR_EL2
SPSR_MON == SPSR_EL3
A32_SP == 13
A32_LR == 14
A32_PC_NUM == 15
\* regnum_t NONE = -1
NONE == -1

\* jazelle.h
J32_SHT == 5
J32_TOS == 6

\* emu.h: xPSR masks
CPSR_MODE_MASK == 15
CPSR_M4 == 16
CPSR_T == 32
CPSR_F == 64
CPSR_I == 128
CPSR_A == 256
CPSR_E == 512
CPSR_D == 512
CPSR_IL == 1048576
CPSR_SS == 2097152
CPSR_PAN == 4194304
CPSR_UAO == 8388608
CPSR_J == 16777216
CPSR_Q == 134217728
CPSR_V == 268435456
CPSR_C == 536870912
CPSR_Z == 1073741824
\* 0x80000000 as a two's-complement 32-bit integer
CPSR_N == (-2147483647) - 1
CPSR_SP == 1
CPSR_EL_MASK == 12
CPSR_EL_SHIFT == 2
CPSR_GE_SHIFT == 16
CPSR_A26_F == 67108864
CPSR_A26_I == 134217728

\* emu.h: processor modes
MODE_USR == 0
MODE_FIQ == 1
MODE_IRQ == 2
MODE_SVC == 3
MODE_MON == 6
MODE_ABT == 7
MODE_HYP == 10
MODE_UND == 11
MODE_SYS == 15

\* emu.h: SCTLR, SCR, HCR bits (bit positions)
SCTLR_A == 1
SCTLR_P == 4
SCTLR_D == 5
SCTLR_B == 7
SCTLR_V == 13
SCTLR_U == 22
SCTLR_SPAN == 23
SCTLR_EE == 25
SCTLR_TE == 30
SCR_EL3_RW == 10
HCR_EL2_RW == 31
HCR_EL2_E2H == 34
HCR_EL2_TGE == 27

\* emu.h: PSTATE.rw and PSTATE.jt
PSTATE_RW_26 == 0
PSTATE_RW_32 == 1
PSTATE_RW_64 == 2
PSTATE_JT_ARM == 0
PSTATE_JT_THUMB == 1
PSTATE_JT_JAZELLE == 2
PSTATE_JT_THUMBEE == 3

\* arm.h: Thumb and Jazelle implementation levels
ARM_NO_THUMB == 0
ARM_THUMB_1 == 1
ARM_THUMB_2 == 3
ARM_JAVA_DEFAULT == -1
ARM_JAVA_NONE == 0
ARM_JAVA_TRIVIAL == 1
ARM_JAVA_JAZELLE == 2
ARM_JAVA_EXTENSION == 5

\* emu.h: arm_emu_result_t
ARM_EMU_OK == 0
ARM_EMU_RESET == 1
ARM_EMU_SVC == 2
ARM_EMU_UNDEFINED == 3
ARM_EMU_PREFETCH_ABORT == 4
ARM_EMU_DATA_ABORT == 5
ARM_EMU_ADDRESS26 == 6
ARM_EMU_IRQ == 7
ARM_EMU_FIQ == 8
ARM_EMU_BREAKPOINT == 9
ARM_EMU_UNALIGNED == 10
ARM_EMU_UNALIGNED_PC == 11
ARM_EMU_UNALIGNED_SP == 12
ARM_EMU_SERROR == 13
ARM_EMU_SMC == 14
ARM_EMU_HVC == 15
ARM_EMU_SOFTWARE_STEP == 16

\* emu.c: exception vectors
A32_VECTOR_RESET == 0
A32_VECTOR_UNDEFINED == 4
A32_VECTOR_SWI == 8
A32_VECTOR_PREFETCH_ABORT == 12
A32_VECTOR_DATA_ABORT == 16
A32_VECTOR_ADDRESS == 20
A32_VECTOR_IRQ == 24
A32_VECTOR_FIQ == 28
A64_VECTOR_SYNCHRONOUS == 0
A64_VECTOR_IRQ == 128
A64_VECTOR_FIQ == 256
A64_VECTOR_SERROR == 384

\* arm.h: arm_endianness_t
ARM_ENDIAN_LITTLE == 0
ARM_ENDIAN_BIG == 1
ARM_ENDIAN_SWAPPED == 2

(***************************************************************************)
(* Words and bits.                                                         *)
(***************************************************************************)
\* the mask m if flag is set, else 0:  flag ? m : 0
MaskIf(flag, m) == IF flag THEN m ELSE 0

\* the four bytes of a 32-bit word, least significant first
BytesLE32(v) == << v % 256, (v \div 256) % 256, (v \div 65536) % 256, (v \div 16777216) % 256 >>

\* the 32-bit word whose bytes, least significant first, are b
WordLE32(b) == b[1] + 256 * b[2] + 65536 * b[3] + 16777216 * (IF b[4] >= 128 THEN b[4] - 256 ELSE b[4])

Reverse4(b) == << b[4], b[3], b[2], b[1] >>

(***************************************************************************)
(* State.                                                                  *)
(***************************************************************************)
VARIABLES
    cpu,      \* the processor: a record with the fields of arm_state_t
    jstack,   \* the Jazelle operand stack as a plain sequence, oldest word first
    obs,      \* the last operation: its name, inputs and what it returned
    pre,      \* the processor as it was when the last operation began
    steps     \* operations performed so far

vars == << cpu, jstack, obs, pre, steps >>

\* the addresses of the modelled memory window
MemTop == 47
Addr == 0 .. MemTop

(***************************************************************************)
(* Host memory (main.c _memory_read/_memory_write): every access succeeds. *)
(***************************************************************************)
\* memory->read(cpu, address, buffer, n, privileged): the n bytes at address
MemRead(memory, address, n) == [i \in 1 .. n |-> memory[address + i - 1]]

\* memory->write(cpu, address, buffer, n, privileged)
MemWrite(memory, address, b) ==
    [a \in DOMAIN memory |-> IF a >= address /\ a < address + Len(b) THEN b[a - address + 1] ELSE memory[a]]

\* emu.c memory_read_bytes32: the buffer a 32-bit read fills
memory_read_bytes32(memory, address, endian) ==
    IF endian # ARM_ENDIAN_SWAPPED \/ address % 4 = 0
    THEN MemRead(memory, address, 4)
    ELSE LET k == address % 4
             hi == MemRead(memory, address - k, 4 - k)
             lo == MemRead(memory, address + 8 - 2 * k, k)
         IN  [i \in 1 .. 4 |-> IF i <= k THEN lo[i] ELSE hi[i - k]]

\* emu.c memory_write_bytes32
memory_write_bytes32(memory, address, b, endian) ==
    IF endian # ARM_ENDIAN_SWAPPED \/ address % 4 = 0
    THEN MemWrite(memory, address, b)
    ELSE LET k == address % 4
             m1 == MemWrite(memory, address - k, SubSeq(b, k + 1, 4))
         IN  MemWrite(m1, address + 8 - 2 * k, SubSeq(b, 1, k))

\* emu.c memory_read32: le32toh or be32toh of the buffer
memory_read32(memory, address, endian) ==
    LET b == memory_read_bytes32(memory, address, endian)
    IN  IF endian = ARM_ENDIAN_BIG THEN WordLE32(Reverse4(b)) ELSE WordLE32(b)

\* emu.c memory_write32: htole32 or htobe32 of the value, then the bytes
memory_write32(memory, address, value, endian) ==
    LET b == IF endian = ARM_ENDIAN_BIG THEN Reverse4(BytesLE32(value)) ELSE BytesLE32(value)
    IN  memory_write_bytes32(memory, address, b, endian)

\* emu.c a32_get_data_endianness
a32_get_data_endianness(c) ==
    IF SCTLR_B \in c.sctlr_el1 THEN ARM_ENDIAN_SWAPPED
    ELSE IF c.pstate.e = 1 THEN ARM_ENDIAN_BIG
    ELSE ARM_ENDIAN_LITTLE

\* emu.c a32_read32 (the host memory never refuses, so no data abort)
a32_read32(c, address) == memory_read32(c.memory, address, a32_get_data_endianness(c))

\* emu.c a32_write32
a32_write32(c, address, value) ==
    [c EXCEPT !.memory = memory_write32(c.memory, address, value, a32_get_data_endianness(c))]

\* emu.c a32_read8 over memory_read8: the byte at address ^ 3 under BE-32
a32_read8(c, address) ==
    c.memory[IF a32_get_data_endianness(c) = ARM_ENDIAN_SWAPPED
             THEN address + 3 - 2 * (address % 4) ELSE address]

\* emu.c a32_write8 over memory_write8
a32_write8(c, address, value) ==
    [c EXCEPT !.memory[IF a32_get_data_endianness(c) = ARM_ENDIAN_SWAPPED
                       THEN address + 3 - 2 * (address % 4) ELSE address] = value % 256]

\* a32_read16 had memory_read_bytes16 read the two bytes at the address itself
\* under BE-32
a32_read16_same_address(c, address) ==
    LET b == MemRead(c.memory, address, 2)
    IN  IF a32_get_data_endianness(c) = ARM_ENDIAN_BIG THEN 256 * b[1] + b[2] ELSE b[1] + 256 * b[2]

\* emu.c a32_read16 over memory_read16 and memory_read_bytes16
a32_read16(c, address) ==
    LET endian == a32_get_data_endianness(c)
        b == IF endian # ARM_ENDIAN_SWAPPED THEN MemRead(c.memory, address, 2)
             ELSE IF address % 4 # 3
                  THEN MemRead(c.memory, (address + 3 - 2 * (address % 4)) - 1, 2)
             ELSE << c.memory[address + 4], c.memory[address - 3] >>
    IN  IF endian = ARM_ENDIAN_BIG THEN 256 * b[1] + b[2] ELSE b[1] + 256 * b[2]

\* emu.c a32_write16 over memory_write16 and memory_write_bytes16
a32_write16(c, address, value) ==
    LET endian == a32_get_data_endianness(c)
        v == value % 65536
        b == IF endian = ARM_ENDIAN_BIG THEN << v \div 256, v % 256 >> ELSE << v % 256, v \div 256 >>
    IN  [c EXCEPT !.memory =
            IF endian # ARM_ENDIAN_SWAPPED THEN MemWrite(@, address, b)
            ELSE IF address % 4 # 3
                 THEN MemWrite(@, (address + 3 - 2 * (address % 4)) - 1, b)
            ELSE MemWrite(MemWrite(@, address - 3, << b[2] >>), address + 4, << b[1] >>)]

(***************************************************************************)
(* The register file (emu.c a32_register_for_mode and its accessors).      *)
(***************************************************************************)
\* One row of a32_register_for_mode: registers 0..12 from lo, then r13, r14, PC
BankRow(r8, r9, r10, r11, r12, r13, r14) ==
    << 0, 1, 2, 3, 4, 5, 6, 7, r8, r9, r10, r11, r12, r13, r14, PC >>

NoRow == [i \in 1 .. 16 |-> NONE]

\* The table as the compiler builds it: the initializers written second for
\* [MODE_USR * 16] .. [MODE_SVC * 16] (the rows commented "ARMv1") replace the
\* first four rows, and the array ends with the MODE_SYS row (256 entries).
a32_register_for_mode ==
    BankRow(8, 9, 10, 11, 12, 13, 14)                                   \* MODE_USR
    \o BankRow(8, 9, R10_FIQ, R11_FIQ, R12_FIQ, R13_FIQ, R14_FIQ)       \* MODE_FIQ
    \o BankRow(8, 9, 10, 11, 12, R13_IRQ, R14_IRQ)                      \* MODE_IRQ
    \o BankRow(8, 9, 10, 11, 12, R13_SVC, R14_SVC)                      \* MODE_SVC
    \o NoRow \o NoRow
    \o BankRow(8, 9, 10, 11, 12, R13_MON, R14_MON)                      \* MODE_MON
    \o BankRow(8, 9, 10, 11, 12, R13_ABT, R14_ABT)                      \* MODE_ABT
    \o NoRow \o NoRow
    \o BankRow(8, 9, 10, 11, 12, R13_HYP, 14)                           \* MODE_HYP
    \o BankRow(8, 9, 10, 11, 12, R13_UND, R14_UND)                      \* MODE_UND
    \o NoRow \o NoRow \o NoRow
    \o BankRow(8, 9, 10, 11, 12, 13, 14)                                \* MODE_SYS

\* the slot a32_register_mode(cpu, regnum, mode) names
a32_register_mode(c, regnum, mode) ==
    a32_register_for_mode[mode * 16 + regnum + (IF c.config.version = ARMV1 THEN 256 ELSE 0) + 1]

\* the slot a32_register(cpu, regnum) names
a32_register(c, regnum) == a32_register_mode(c, regnum, c.pstate.mode)

\* emu.c a32_register_get32: R15 reads ahead of the instruction
a32_register_get32(c, regnum) ==
    c.r[a32_register(c, regnum % 16)]
    + (IF regnum % 16 # A32_PC_NUM THEN 0
       ELSE IF c.pstate.jt = PSTATE_JT_ARM THEN 4
       ELSE IF c.pstate.jt \in {PSTATE_JT_THUMB, PSTATE_JT_THUMBEE} THEN 2
       ELSE 0)

\* emu.c a32_set_pc
a32_set_pc(c, value) ==
    [c EXCEPT !.r[PC] = IF c.pstate.jt = PSTATE_JT_ARM THEN value - (value % 4)
                        ELSE IF c.pstate.jt = PSTATE_JT_JAZELLE THEN value
                        ELSE value - (value % 2)]

\* emu.c a32_register_set32
a32_register_set32(c, regnum, value) ==
    IF regnum % 16 = A32_PC_NUM
    THEN IF c.pstate.rw = PSTATE_RW_26
         THEN [c EXCEPT !.r[PC] = (value % 67108864) - (value % 4)]
         ELSE a32_set_pc(c, value)
    ELSE [c EXCEPT !.r[a32_register(c, regnum % 16)] = value]

(***************************************************************************)
(* Construction (emu.c arm_emu_init, arm_set_isa).                         *)
(***************************************************************************)
\* cpu.entry is not a field of arm_state_t: it records which routine ended the
\* current step by longjmp (arm_break_emulation, a32_exception or
\* a64_exception) and the arguments it was called with.
NoEntry == [fn |-> "none", address |-> 0, mode |-> 0]

\* PSTATE after memset(cpu, 0, sizeof(arm_state_t))
ZeroPstate ==
    [rw |-> 0, mode |-> 0, f |-> 0, i |-> 0, jt |-> 0, q |-> 0, a |-> 0, ge |-> 0,
     e |-> 0, it |-> 0, sp |-> 0, el |-> 0, d |-> 0, il |-> 0, ss |-> 0, pan |-> 0,
     uao |-> 0, v |-> 0, c |-> 0, z |-> 0, n |-> 0]

\* emu.c arm_emu_init: config is [version, features, thumb_implementation,
\* jazelle_implementation]; the profile is bits 0 and 1 of features
arm_emu_init(config, supported_isas) ==
    LET f1 == IF ISA_AARCH32 \in supported_isas
                 /\ FEATURE_ARM26 \notin config.features /\ FEATURE_ARM32 \notin config.features
              THEN config.features \cup {IF config.version < ARMV3 THEN FEATURE_ARM26 ELSE FEATURE_ARM32}
              ELSE config.features
        f2 == IF ISA_AARCH64 \in supported_isas THEN f1 \cup {FEATURE_ARM64} ELSE f1
        thumb == IF FEATURE_THUMB2 \in f2 /\ config.thumb_implementation < ARM_THUMB_2 THEN ARM_THUMB_2
                 ELSE IF (FEATURE_THUMB \in f2 \/ ISA_THUMB32 \in supported_isas)
                         /\ config.thumb_implementation < ARM_THUMB_1 THEN ARM_THUMB_1
                 ELSE config.thumb_implementation
        f3 == f2 \cup (IF thumb >= ARM_THUMB_1 THEN {FEATURE_THUMB} ELSE {})
                 \cup (IF thumb >= ARM_THUMB_2 THEN {FEATURE_THUMB2} ELSE {})
        i3 == supported_isas \cup (IF thumb >= ARM_THUMB_1 THEN {ISA_THUMB32} ELSE {})
        ji == config.jazelle_implementation
        java == IF ji = ARM_JAVA_DEFAULT THEN ARM_JAVA_JAZELLE
                ELSE IF ji = ARM_JAVA_NONE
                     THEN IF ISA_JAZELLE \in i3 THEN ARM_JAVA_JAZELLE
                          ELSE IF FEATURE_JAZELLE \in f3 THEN ARM_JAVA_TRIVIAL ELSE ji
                ELSE IF ji = ARM_JAVA_TRIVIAL
                     THEN IF ISA_JAZELLE \in i3 THEN ARM_JAVA_JAZELLE ELSE ji
                ELSE IF ji = ARM_JAVA_JAZELLE THEN ji
                ELSE ARM_JAVA_EXTENSION
        f4 == f3 \cup (IF java >= ARM_JAVA_TRIVIAL THEN {FEATURE_JAZELLE} ELSE {})
        i4 == i3 \cup (IF java >= ARM_JAVA_JAZELLE THEN {ISA_JAZELLE} ELSE {})
    IN  [config |-> [version |-> config.version, features |-> f4,
                     thumb_implementation |-> thumb, jazelle_implementation |-> java],
         supported_isas |-> i4,
         el2_supported |-> FEATURE_VIRTUALIZATION \in config.features,
         el3_supported |-> FEATURE_SECURITY \in config.features,
         lowest_64bit_only_el |-> IF FEATURE_ARM64 \in config.features THEN 3 ELSE 4,
         capture_breaks |-> FALSE,
         result |-> ARM_EMU_OK,
         entry |-> NoEntry,
         r |-> [n \in 0 .. REG_COUNT - 1 |-> 0],
         old_pc |-> 0,
         pstate |-> ZeroPstate,
         exclusive_start |-> 0,
         exclusive_end |-> 0,
         \* cpu->config.features & FEATURE_ARM26 tests bits 0 and 1 (FEATURE_ARM26 = 3)
         sctlr_el1 |-> IF f4 \cap {0, 1} = {} THEN {SCTLR_P, SCTLR_D} ELSE {},
         scr_el3 |-> {},
         hcr_el2 |-> {},
         vbar_el1 |-> 0, vbar_el2 |-> 0, vbar_el3 |-> 0,
         memory |-> [a \in Addr |-> 0]]

\* emu.c arm_set_isa
arm_set_isa(c, isa) ==
    IF isa = ISA_AARCH26 THEN [c EXCEPT !.pstate.rw = PSTATE_RW_26, !.pstate.jt = PSTATE_JT_ARM]
    ELSE IF isa = ISA_AARCH32
         THEN [c EXCEPT !.pstate.rw = PSTATE_RW_32, !.pstate.jt = PSTATE_JT_ARM,
                        !.sctlr_el1 = {SCTLR_P, SCTLR_D}]
    ELSE IF isa = ISA_THUMB32 THEN [c EXCEPT !.pstate.rw = PSTATE_RW_32, !.pstate.jt = PSTATE_JT_THUMB]
    ELSE IF isa = ISA_JAZELLE THEN [c EXCEPT !.pstate.rw = PSTATE_RW_32, !.pstate.jt = PSTATE_JT_JAZELLE]
    ELSE IF isa = ISA_THUMBEE THEN [c EXCEPT !.pstate.rw = PSTATE_RW_32, !.pstate.jt = PSTATE_JT_THUMBEE]
    ELSE [c EXCEPT !.pstate.rw = PSTATE_RW_64, !.pstate.jt = PSTATE_JT_ARM]

(***************************************************************************)
(* The Jazelle operand stack (jazelle.c, built with J32_EMULATE_INTERNALS). *)
(***************************************************************************)
\* jazelle.c j32_push_word_memory
j32_push_word_memory(c, value) ==
    LET sp == a32_register_get32(c, J32_TOS)
    IN  a32_register_set32(a32_write32(c, sp, value), J32_TOS, sp + 4)

\* jazelle.c j32_pop_word_memory
j32_pop_word_memory(c) ==
    LET sp == a32_register_get32(c, J32_TOS) - 4
    IN  [cpu |-> a32_register_set32(c, J32_TOS, sp), value |-> a32_read32(c, sp)]

\* jazelle.c j32_get_fast_stack_size: (SHT >> 2) & 7
j32_get_fast_stack_size(c) == (a32_register_get32(c, J32_SHT) \div 4) % 8

\* jazelle.c j32_get_fast_stack_top: SHT & 0x1C ? SHT & 3 : 3
j32_get_fast_stack_top(c) ==
    IF (a32_register_get32(c, J32_SHT) \div 4) % 8 # 0 THEN a32_register_get32(c, J32_SHT) % 4 ELSE 3

\* jazelle.c j32_get_fast_stack_element
j32_get_fast_stack_element(c, offset) ==
    IF (a32_register_get32(c, J32_SHT) \div 4) % 8 # 0
    THEN (a32_register_get32(c, J32_SHT) - offset) % 4
    ELSE (offset + 3) % 4

\* jazelle.c j32_set_fast_stack_size_top
j32_set_fast_stack_size_top(c, size, top) ==
    LET t == IF size = 0 THEN 0 ELSE top
        sht == c.r[a32_register(c, J32_SHT)]
    IN  [c EXCEPT !.r[a32_register(c, J32_SHT)] =
             (sht - (sht % 32)) + (t % 4) + 4 * (IF size > 4 THEN 4 ELSE size)]

\* the while loop of j32_spill_fast_stack_size
RECURSIVE SpillLoop(_, _, _, _)
SpillLoop(c, current, destination, top) ==
    IF current > destination
    THEN SpillLoop(j32_push_word_memory(c, a32_register_get32(c, (top - (current - 1)) % 4)),
                   current - 1, destination, top)
    ELSE c

\* a spill that takes the registers one place too high
j32_spill_one_register_up(c, destination) ==
    LET current == j32_get_fast_stack_size(c)
        top == j32_get_fast_stack_top(c)
    IN  IF current <= destination THEN c
        ELSE j32_set_fast_stack_size_top(SpillLoop(c, current, destination, (top + 1) % 4), destination, top)

\* jazelle.c j32_spill_fast_stack_size
j32_spill_fast_stack_size(c, destination) ==
    LET current == j32_get_fast_stack_size(c)
        top == j32_get_fast_stack_top(c)
    IN  IF current <= destination THEN c
        ELSE j32_set_fast_stack_size_top(SpillLoop(c, current, destination, top), destination, top)

\* the while loop of j32_fill_fast_stack_size
RECURSIVE FillLoop(_, _, _, _)
FillLoop(c, current, destination, top) ==
    IF current < destination
    THEN LET p == j32_pop_word_memory(c)
         IN  FillLoop(a32_register_set32(p.cpu, (top - current) % 4, p.value),
                      current + 1, destination, top)
    ELSE c

\* a fill that loads the registers but leaves TOS where it was
j32_fill_keeps_tos(c, destination) ==
    LET current == j32_get_fast_stack_size(c)
        top == IF current = 0 THEN destination - 1 ELSE j32_get_fast_stack_top(c)
    IN  IF current >= destination THEN c
        ELSE [j32_set_fast_stack_size_top(FillLoop(c, current, destination, top), destination, top)
                 EXCEPT !.r[a32_register(c, J32_TOS)] = c.r[a32_register(c, J32_TOS)]]

\* jazelle.c j32_fill_fast_stack_size
j32_fill_fast_stack_size(c, destination) ==
    LET current == j32_get_fast_stack_size(c)
        top == IF current = 0 THEN destination - 1 ELSE j32_get_fast_stack_top(c)
    IN  IF current >= destination THEN c
        ELSE j32_set_fast_stack_size_top(FillLoop(c, current, destination, top), destination, top)

\* jazelle.c j32_spill_fast_stack
j32_spill_fast_stack(c) == j32_spill_fast_stack_size(c, 0)

\* jazelle.c j32_push_word
j32_push_word(c, value) ==
    LET full == j32_get_fast_stack_size(c) = 4
        c1 == IF full THEN j32_spill_fast_stack_size(c, 3) ELSE c
        size == IF full THEN 3 ELSE j32_get_fast_stack_size(c)
        top == (j32_get_fast_stack_top(c1) + 1) % 4
    IN  j32_set_fast_stack_size_top(a32_register_set32(c1, top, value), size + 1, top)

\* jazelle.c j32_pop_word
j32_pop_word(c) ==
    LET empty == j32_get_fast_stack_size(c) = 0
        c1 == IF empty THEN j32_fill_fast_stack_size(c, 1) ELSE c
        size == IF empty THEN 1 ELSE j32_get_fast_stack_size(c)
        top == j32_get_fast_stack_top(c1)
    IN  [cpu |-> j32_set_fast_stack_size_top(c1, size - 1, (top - 1) % 4),
         value |-> a32_register_get32(c1, top)]

\* jazelle.c j32_peek_word
j32_peek_word(c, index) ==
    IF index <= 3
    THEN LET c1 == IF j32_get_fast_stack_size(c) <= index
                   THEN j32_fill_fast_stack_size(c, index + 1) ELSE c
         IN  [cpu |-> c1, value |-> a32_register_get32(c1, j32_get_fast_stack_element(c1, index))]
    ELSE LET size == j32_get_fast_stack_size(c)
             sp == a32_register_get32(c, J32_TOS)
         IN  [cpu |-> c, value |-> a32_read32(c, sp - 4 * (1 + index - size))]

(***************************************************************************)
(* The exception pipeline (emu.c).                                         *)
(***************************************************************************)
\* arm.h MAX
MAX(a, b) == IF a > b THEN a ELSE b

\* emu.c is_supported_isa
is_supported_isa(c, isa) ==
    IF isa = ISA_AARCH26 THEN FEATURE_ARM26 \in c.config.features
    ELSE IF isa = ISA_AARCH32 THEN FEATURE_ARM32 \in c.config.features
    ELSE IF isa = ISA_THUMB32 THEN FEATURE_THUMB \in c.config.features
    ELSE IF isa = ISA_JAZELLE THEN FEATURE_JAZELLE \in c.config.features
    ELSE IF isa = ISA_THUMBEE THEN FEATURE_THUMB \in c.config.features /\ c.config.version = ARMV7
    ELSE FEATURE_ARM64 \in c.config.features

\* emu.c arm_get_current_instruction_set
arm_get_current_instruction_set(c) ==
    IF c.pstate.rw = PSTATE_RW_26 THEN ISA_AARCH26
    ELSE IF c.pstate.rw = PSTATE_RW_64 THEN ISA_AARCH64
    ELSE IF c.pstate.jt = PSTATE_JT_ARM THEN ISA_AARCH32
    ELSE IF c.pstate.jt = PSTATE_JT_THUMB THEN ISA_THUMB32
    ELSE IF c.pstate.jt = PSTATE_JT_JAZELLE THEN ISA_JAZELLE
    ELSE ISA_THUMBEE

\* emu.c a32_is_prog26 (bit is SCTLR_P) and a32_is_data26 (bit is SCTLR_D)
a32_is_26(c, bit) ==
    IF ~is_supported_isa(c, ISA_AARCH26) THEN FALSE
    ELSE IF ~is_supported_isa(c, ISA_AARCH32) THEN TRUE
    ELSE c.config.version < ARMV8 /\ bit \notin c.sctlr_el1

a32_is_prog26(c) == a32_is_26(c, SCTLR_P)

a32_is_data26(c) == a32_is_26(c, SCTLR_D)

\* emu.c a32_get_cpsr
a32_get_cpsr(c) ==
    LET p == c.pstate
        f == c.config.features
        v == c.config.version
    IN  p.mode + MaskIf(p.rw % 2 = 1, CPSR_M4) + MaskIf(p.f = 1, CPSR_F) + MaskIf(p.i = 1, CPSR_I)
        + MaskIf(p.v = 1, CPSR_V) + MaskIf(p.c = 1, CPSR_C) + MaskIf(p.z = 1, CPSR_Z) + MaskIf(p.n = 1, CPSR_N)
        + MaskIf(FEATURE_THUMB \in f /\ p.jt % 2 = 1, CPSR_T)
        + MaskIf((FEATURE_JAZELLE \in f \/ v = ARMV7) /\ p.jt \div 2 = 1, CPSR_J)
        + MaskIf(FEATURE_ENH_DSP \in f /\ p.q = 1, CPSR_Q)
        + (IF v >= ARMV6 THEN MaskIf(p.a = 1, CPSR_A) + MaskIf(p.e = 1, CPSR_E) + p.ge * 65536 ELSE 0)
        + (IF FEATURE_THUMB2 \in f THEN (p.it % 4) * 33554432 + (p.it \div 4) * 1024 ELSE 0)
        + MaskIf(v >= ARMV81 /\ p.pan = 1, CPSR_PAN)

\* emu.c a64_get_cpsr
a64_get_cpsr(c) ==
    LET p == c.pstate
        v == c.config.version
    IN  p.sp + p.el * 4 + MaskIf(p.rw % 2 = 1, CPSR_M4) + MaskIf(p.f = 1, CPSR_F) + MaskIf(p.i = 1, CPSR_I)
        + MaskIf(p.a = 1, CPSR_A) + MaskIf(p.d = 1, CPSR_D)
        + MaskIf(p.v = 1, CPSR_V) + MaskIf(p.c = 1, CPSR_C) + MaskIf(p.z = 1, CPSR_Z) + MaskIf(p.n = 1, CPSR_N)
        + MaskIf(v >= ARMV81 /\ p.pan = 1, CPSR_PAN) + MaskIf(v >= ARMV82 /\ p.uao = 1, CPSR_UAO)

\* emu.c a26_get_pc: the 26-bit R15 image, PC & 0x03FFFFFC with the PSR bits
a26_get_pc(c) ==
    LET p == c.pstate
    IN  ((c.r[PC] % 67108864) - (c.r[PC] % 4)) + (p.mode % 4)
        + MaskIf(p.f = 1, CPSR_A26_F) + MaskIf(p.i = 1, CPSR_A26_I)
        + MaskIf(p.v = 1, CPSR_V) + MaskIf(p.c = 1, CPSR_C) + MaskIf(p.z = 1, CPSR_Z) + MaskIf(p.n = 1, CPSR_N)

\* emu.c a32_spsr_for_mode, indexed by mode + 1
a32_spsr_for_mode ==
    << NONE, SPSR_FIQ, SPSR_IRQ, SPSR_SVC, NONE, NONE, SPSR_MON, SPSR_ABT,
       NONE, NONE, SPSR_MON, SPSR_UND, NONE, NONE, NONE, NONE >>

\* emu.c t32_advance_it
t32_advance_it(c) ==
    LET it == c.pstate.it
    IN  IF it % 16 = 0 THEN c
        ELSE IF it % 8 = 0 THEN [c EXCEPT !.pstate.it = 0]
        ELSE [c EXCEPT !.pstate.it = (it \div 32) * 32 + ((2 * it) % 32)]

\* arm_break_emulation had it cleared the IT state as exception entry does
arm_break_emulation_clears_it(c, result) ==
    [c EXCEPT !.pstate.it = 0, !.result = result,
              !.entry = [fn |-> "arm_break_emulation", address |-> 0, mode |-> 0]]

\* emu.c arm_break_emulation
arm_break_emulation(c, result) ==
    [t32_advance_it(c) EXCEPT !.result = result,
                              !.entry = [fn |-> "arm_break_emulation", address |-> 0, mode |-> 0]]

\* emu.c a64_el_uses_aarch64
a64_el_uses_aarch64(c, selected_el) ==
    IF selected_el >= c.lowest_64bit_only_el THEN TRUE
    ELSE IF selected_el = 3 THEN FALSE
    ELSE IF c.el3_supported /\ SCR_EL3_RW \notin c.scr_el3 THEN FALSE
    ELSE IF selected_el = 2 THEN TRUE
    ELSE IF c.el2_supported /\ HCR_EL2_RW \notin c.hcr_el2
            /\ ~({HCR_EL2_E2H, HCR_EL2_TGE} \subseteq c.hcr_el2) THEN FALSE
    ELSE IF selected_el = 1 THEN TRUE
    ELSE c.pstate.rw = PSTATE_RW_64

\* emu.c a64_exception
a64_exception(c, address, mode) ==
    LET c0 == t32_advance_it(c)
        current_el == c0.pstate.el
        target_el == (mode % 16) \div 4          \* (mode & CPSR_EL_MASK) >> CPSR_EL_SHIFT
        a1 == IF target_el > current_el
              THEN IF a64_el_uses_aarch64(c0, target_el - 1) THEN address + 1536 ELSE address + 1024
              ELSE IF c0.pstate.sp = 1 THEN address + 512
              ELSE address
        vbar == IF target_el = 1 THEN c0.vbar_el1
                ELSE IF target_el = 2 THEN c0.vbar_el2
                ELSE IF target_el = 3 THEN c0.vbar_el3
                ELSE 0
        a2 == a1 + (vbar - (vbar % 2048))
    IN  [c0 EXCEPT !.r = [@ EXCEPT ![ELR_EL1 - 1 + mode] = c0.r[PC],
                                   ![SPSR_EL1 - 1 + mode] = a64_get_cpsr(c0),
                                   ![PC] = a2],
                   !.pstate = [@ EXCEPT !.rw = PSTATE_RW_64, !.jt = PSTATE_JT_ARM, !.mode = mode % 16,
                                        !.sp = 1, !.d = 1, !.a = 1, !.i = 1, !.f = 1,
                                        !.it = 0, !.ss = 0, !.il = 0,
                                        !.pan = IF c0.config.version >= ARMV81
                                                THEN (IF SCTLR_SPAN \in c0.sctlr_el1 THEN 1 ELSE 0)
                                                ELSE @],
                   !.entry = [fn |-> "a64_exception", address |-> address, mode |-> mode]]

\* emu.c a32_exception
a32_exception(c, address, mode) ==
    LET c0 == t32_advance_it(c)
        v == c0.config.version
        saved == IF ~a32_is_prog26(c0)
                 THEN [c0.r EXCEPT ![IF mode = MODE_HYP THEN ELR_HYP ELSE a32_register_mode(c0, 14, mode)] = c0.r[PC],
                                   ![a32_spsr_for_mode[(mode % 16) + 1]] = a32_get_cpsr(c0)]
                 ELSE [c0.r EXCEPT ![a32_register_mode(c0, 14, mode)] = a26_get_pc(c0)]
    IN  [c0 EXCEPT !.r = [saved EXCEPT ![PC] = IF SCTLR_V \in c0.sctlr_el1 THEN address - 65536 ELSE address],
                   !.pstate = [@ EXCEPT !.i = 1, !.mode = mode % 16,
                                        !.rw = IF a32_is_prog26(c0) THEN PSTATE_RW_26 ELSE PSTATE_RW_32,
                                        !.f = IF address = A32_VECTOR_RESET \/ address = A32_VECTOR_FIQ THEN 1 ELSE @,
                                        !.jt = IF v >= ARMV7 /\ SCTLR_TE \in c0.sctlr_el1
                                               THEN PSTATE_JT_THUMB ELSE PSTATE_JT_ARM,
                                        !.e = IF v >= ARMV6 /\ SCTLR_EE \in c0.sctlr_el1 THEN 1 ELSE 0,
                                        !.a = IF v >= ARMV6 /\ (address # A32_VECTOR_UNDEFINED \/ address # A32_VECTOR_SWI)
                                              THEN 1 ELSE @,
                                        !.it = 0,
                                        !.ss = IF v >= ARMV8 THEN 1 ELSE @,
                                        !.il = IF v >= ARMV8 THEN 1 ELSE @,
                                        !.pan = IF v >= ARMV81
                                                THEN (IF SCTLR_SPAN \in c0.sctlr_el1 THEN 1 ELSE 0)
                                                ELSE @],
                   !.entry = [fn |-> "a32_exception", address |-> address, mode |-> mode]]

\* cpu->r[PC] = cpu->old_pc, the first statement of the handlers that rewind
Rewind(c) == [c EXCEPT !.r[PC] = c.old_pc]

\* cpu->r[PC] += n
AdvancePC(c, n) == [c EXCEPT !.r[PC] = @ + n]

\* the three-way tail the handlers share: break out when breaks are captured,
\* else a64_exception when a64_el_uses_aarch64(cpu, el), else PC += skip and
\* a32_exception
Deliver(c, result, el, a64vector, a64mode, skip, a32vector, a32mode) ==
    IF c.capture_breaks THEN arm_break_emulation(c, result)
    ELSE IF a64_el_uses_aarch64(c, el) THEN a64_exception(c, a64vector, a64mode)
    ELSE a32_exception(AdvancePC(c, skip), a32vector, a32mode)

\* emu.c arm_reset
arm_reset(c) ==
    IF c.capture_breaks THEN arm_break_emulation(c, ARM_EMU_RESET)
    ELSE IF c.el3_supported
         THEN IF c.lowest_64bit_only_el <= 3 THEN a64_exception(c, A64_VECTOR_SYNCHRONOUS, 3)
              ELSE a32_exception(c, A32_VECTOR_RESET, MODE_SVC)
    ELSE IF c.el2_supported
         THEN IF c.lowest_64bit_only_el <= 2 THEN a64_exception(c, A64_VECTOR_SYNCHRONOUS, 2)
              ELSE a32_exception(c, A32_VECTOR_RESET, MODE_HYP)
    ELSE IF c.lowest_64bit_only_el <= 1 THEN a64_exception(c, A64_VECTOR_SYNCHRONOUS, 1)
         ELSE a32_exception(c, A32_VECTOR_RESET, MODE_SVC)

\* emu.c arm_undefined
arm_undefined(c) ==
    LET c0 == Rewind(c)
        isa == arm_get_current_instruction_set(c0)
        skip == IF isa \in {ISA_AARCH26, ISA_AARCH32} THEN 4
                ELSE IF isa \in {ISA_THUMB32, ISA_THUMBEE} THEN 2
                ELSE 0
    IN  Deliver(c0, ARM_EMU_SVC, 1, A64_VECTOR_SYNCHRONOUS, MAX(1, c0.pstate.el),
                skip, A32_VECTOR_UNDEFINED, IF ~a32_is_prog26(c0) THEN MODE_UND ELSE MODE_SVC)

\* emu.c arm_svc
arm_svc(c) ==
    Deliver(c, ARM_EMU_SVC, 1, A64_VECTOR_SYNCHRONOUS, MAX(1, c.pstate.el), 0, A32_VECTOR_SWI, MODE_SVC)

\* emu.c arm_hvc
arm_hvc(c) ==
    Deliver(c, ARM_EMU_HVC, 2, A64_VECTOR_SYNCHRONOUS, MAX(2, c.pstate.el), 0, A32_VECTOR_SWI, MODE_HYP)

\* emu.c arm_smc
arm_smc(c) ==
    Deliver(c, ARM_EMU_SMC, 3, A64_VECTOR_SYNCHRONOUS, 3, 0, A32_VECTOR_SWI, MODE_MON)

\* emu.c arm_prefetch_abort
arm_prefetch_abort(c) ==
    Deliver(Rewind(c), ARM_EMU_PREFETCH_ABORT, 1, A64_VECTOR_SYNCHRONOUS, MAX(1, c.pstate.el),
            4, A32_VECTOR_PREFETCH_ABORT, IF ~a32_is_prog26(c) THEN MODE_ABT ELSE MODE_SVC)

\* arm_data_abort without its first statement, cpu->r[PC] = cpu->old_pc
arm_data_abort_keeps_pc(c) ==
    Deliver(c, ARM_EMU_DATA_ABORT, 1, A64_VECTOR_SYNCHRONOUS, MAX(1, c.pstate.el),
            8, A32_VECTOR_DATA_ABORT, IF ~a32_is_prog26(c) THEN MODE_ABT ELSE MODE_SVC)

\* emu.c arm_data_abort
arm_data_abort(c) ==
    Deliver(Rewind(c), ARM_EMU_DATA_ABORT, 1, A64_VECTOR_SYNCHRONOUS, MAX(1, c.pstate.el),
            8, A32_VECTOR_DATA_ABORT, IF ~a32_is_prog26(c) THEN MODE_ABT ELSE MODE_SVC)

\* emu.c a32_address_exception (no AArch64 branch)
a32_address_exception(c) ==
    IF c.capture_breaks THEN arm_break_emulation(Rewind(c), ARM_EMU_ADDRESS26)
    ELSE a32_exception(AdvancePC(Rewind(c), 8), A32_VECTOR_ADDRESS, MODE_SVC)

\* emu.c arm_interrupt
arm_interrupt(c) ==
    Deliver(c, ARM_EMU_IRQ, 1, A64_VECTOR_IRQ, MAX(1, c.pstate.el), 4, A32_VECTOR_IRQ, MODE_IRQ)

\* emu.c arm_fast_interrupt
arm_fast_interrupt(c) ==
    Deliver(c, ARM_EMU_FIQ, 1, A64_VECTOR_FIQ, MAX(1, c.pstate.el), 4, A32_VECTOR_FIQ, MODE_FIQ)

\* emu.c arm_serror
arm_serror(c) ==
    Deliver(c, ARM_EMU_SERROR, 1, A64_VECTOR_SERROR, MAX(1, c.pstate.el), 4, A32_VECTOR_DATA_ABORT, MODE_ABT)

\* emu.c arm_breakpoint
arm_breakpoint(c) ==
    Deliver(Rewind(c), ARM_EMU_BREAKPOINT, 1, A64_VECTOR_SYNCHRONOUS, MAX(1, c.pstate.el),
            4, A32_VECTOR_PREFETCH_ABORT, MODE_ABT)

\* emu.c arm_unaligned
arm_unaligned(c) ==
    Deliver(Rewind(c), ARM_EMU_UNALIGNED, 1, A64_VECTOR_SYNCHRONOUS, MAX(1, c.pstate.el),
            8, A32_VECTOR_DATA_ABORT, IF ~a32_is_prog26(c) THEN MODE_ABT ELSE MODE_SVC)

\* emu.c arm_unaligned_pc
arm_unaligned_pc(c) ==
    Deliver(Rewind(c), ARM_EMU_UNALIGNED_PC, 1, A64_VECTOR_SYNCHRONOUS, MAX(1, c.pstate.el),
            4, A32_VECTOR_PREFETCH_ABORT, MODE_ABT)

\* emu.c a64_unaligned_sp (no AArch32 branch)
a64_unaligned_sp(c) ==
    IF c.capture_breaks THEN arm_break_emulation(Rewind(c), ARM_EMU_UNALIGNED_SP)
    ELSE a64_exception(Rewind(c), A64_VECTOR_SYNCHRONOUS, MAX(1, c.pstate.el))

\* emu.c arm_software_step (no AArch32 branch)
arm_software_step(c) ==
    IF c.capture_breaks THEN arm_break_emulation(Rewind(c), ARM_EMU_SOFTWARE_STEP)
    ELSE a64_exception(Rewind(c), A64_VECTOR_SYNCHRONOUS, MAX(1, c.pstate.el))

(***************************************************************************)
(* One instruction (emu.c step and the fetch routines).                    *)
(***************************************************************************)
\* whether the step has been ended by a longjmp out of the instruction
Faulted(c) == c.entry.fn # "none"

\* emu.c step: the result is reset before the instruction runs
step(c) == [c EXCEPT !.result = ARM_EMU_OK, !.entry = NoEntry]

\* the generated a32_step/t32_step/a64_step record where the instruction
\* starts before they fetch it
SaveOldPC(c) == [c EXCEPT !.old_pc = c.r[PC]]

\* a fetch that does not look at the alignment of the A64 PC
Fetch_unchecked(c) ==
    IF c.pstate.rw = PSTATE_RW_64 THEN AdvancePC(c, 4)
    ELSE IF c.pstate.rw = PSTATE_RW_26 THEN [c EXCEPT !.r[PC] = (@ + 4) % 67108864]
    ELSE IF c.pstate.jt = PSTATE_JT_ARM THEN AdvancePC(c, 4)
    ELSE IF c.pstate.jt = PSTATE_JT_JAZELLE THEN AdvancePC(c, 1)
    ELSE AdvancePC(c, 2)

\* emu.c a32_fetch32, a64_fetch32, a32_fetch16, j32_fetch8: PC moves past the
\* fetched unit (the host memory never refuses the read)
Fetch(c) ==
    IF c.pstate.rw = PSTATE_RW_64
    THEN IF c.r[PC] % 4 # 0 THEN arm_unaligned_pc(c) ELSE AdvancePC(c, 4)
    ELSE IF c.pstate.rw = PSTATE_RW_26 THEN [c EXCEPT !.r[PC] = (@ + 4) % 67108864]
    ELSE IF c.pstate.jt = PSTATE_JT_ARM THEN AdvancePC(c, 4)
    ELSE IF c.pstate.jt = PSTATE_JT_JAZELLE THEN AdvancePC(c, 1)
    ELSE AdvancePC(c, 2)

\* the processor when the fetched instruction begins to execute
Begin(c) == Fetch(SaveOldPC(step(c)))

(***************************************************************************)
(* Ordinary store and the exclusive monitor (emu.c).                       *)
(***************************************************************************)
\* emu.c a26_check_address: whether the address raises the address exception
a26_check_address(c, address) == a32_is_data26(c) /\ (address < 0 \/ address >= 67108864)

\* the address the load/store routines compute first: the base register
\* (word-aligned when it is the PC) plus the offset
BaseOffset(c, base, offset) ==
    a32_register_get32(c, base) - (IF base = A32_PC_NUM THEN a32_register_get32(c, base) % 4 ELSE 0) + offset

\* the alignment rule of the load/store routines for an access of the given
\* size: whether the address raises arm_unaligned ...
Misaligned(c, address, size) ==
    address % size # 0 /\ (SCTLR_A \in c.sctlr_el1 \/ ~(c.config.version <= ARMV6 /\ SCTLR_U \notin c.sctlr_el1))

\* ... and the address accessed: address & ~(size - 1) on ARMv6 and earlier
\* with SCTLR.A and SCTLR.U clear, else the address itself
Aligned(c, address, size) ==
    IF SCTLR_A \notin c.sctlr_el1 /\ c.config.version <= ARMV6 /\ SCTLR_U \notin c.sctlr_el1
    THEN address - (address % size) ELSE address

\* emu.c a32_str, pre-indexed without writeback (an unaligned address does
\* not fault here unless SCTLR.A is set)
a32_str(c, value, base, offset) ==
    LET address == BaseOffset(c, base, offset)
    IN  IF a26_check_address(c, address) THEN a32_address_exception(c)
        ELSE IF SCTLR_A \in c.sctlr_el1 /\ address % 4 # 0 THEN arm_unaligned(c)
        ELSE a32_write32(c, Aligned(c, address, 4), value)

\* emu.c a32_mark_exclusive
a32_mark_exclusive(c, base, size) == [c EXCEPT !.exclusive_start = base, !.exclusive_end = base + size - 1]

\* emu.c a32_check_exclusive
a32_check_exclusive(c, base, size) == c.exclusive_start < base + size /\ base <= c.exclusive_end

\* emu.c a32_ldrexb, a32_ldrexh, a32_ldrex: size is 1, 2 or 4; a32_ldrex
\* returns a32_read8 of the address
a32_ldrex_size(c, base, offset, size) ==
    LET address == Aligned(c, BaseOffset(c, base, offset), size)
    IN  IF Misaligned(c, BaseOffset(c, base, offset), size) THEN [cpu |-> arm_unaligned(c), value |-> 0]
        ELSE IF a26_check_address(c, address) THEN [cpu |-> a32_address_exception(c), value |-> 0]
        ELSE [cpu |-> a32_mark_exclusive(c, address, size),
              value |-> IF size = 2 THEN a32_read16(c, address) ELSE a32_read8(c, address)]

\* emu.c a32_ldrexd: the monitor is only checked, never marked
a32_ldrexd(c, operand1, operand2, base, offset) ==
    LET address == Aligned(c, BaseOffset(c, base, offset), 8)
    IN  IF Misaligned(c, BaseOffset(c, base, offset), 8) THEN arm_unaligned(c)
        ELSE IF a26_check_address(c, address) THEN a32_address_exception(c)
        ELSE a32_register_set32(a32_register_set32(c, operand1, a32_read32(c, address)),
                                operand2, a32_read32(c, address + 4))

\* emu.c a32_strexb, a32_strexh, a32_strex: size is 1, 2 or 4
a32_strex_size(c, value, base, offset, size) ==
    LET address == Aligned(c, BaseOffset(c, base, offset), size)
    IN  IF Misaligned(c, BaseOffset(c, base, offset), size) THEN [cpu |-> arm_unaligned(c), value |-> 1]
        ELSE IF ~a32_check_exclusive(c, address, size) THEN [cpu |-> c, value |-> 1]
        ELSE IF a26_check_address(c, address) THEN [cpu |-> a32_address_exception(c), value |-> 0]
        ELSE [cpu |-> IF size = 1 THEN a32_write8(c, address, value)
                      ELSE IF size = 2 THEN a32_write16(c, address, value)
                      ELSE a32_write32(c, address, value),
              value |-> 0]

\* emu.c a32_strexd: 8-byte alignment, the monitor checked for 4 bytes
a32_strexd(c, operand1, operand2, base, offset) ==
    LET address == Aligned(c, BaseOffset(c, base, offset), 8)
    IN  IF Misaligned(c, BaseOffset(c, base, offset), 8) THEN [cpu |-> arm_unaligned(c), value |-> 1]
        ELSE IF ~a32_check_exclusive(c, address, 4) THEN [cpu |-> c, value |-> 1]
        ELSE IF a26_check_address(c, address) THEN [cpu |-> a32_address_exception(c), value |-> 0]
        ELSE [cpu |-> a32_write32(a32_write32(c, address, a32_register_get32(c, operand1)),
                                  address + 4, a32_register_get32(c, operand2)),
              value |-> 0]

\* the bits set in a 32-bit register value
Bits(value) == {k \in 0 .. 30 : (value \div (2 ^ k)) % 2 = 1} \cup (IF value < 0 THEN {31} ELSE {})

\* emu.c a64_perform_msr for the registers the exception pipeline reads: the
\* case that writes the register leaves its inner switch by break and then
\* runs into the default label of the enclosing switch, which is arm_undefined
a64_perform_msr(c, reg, value) ==
    arm_undefined(CASE reg = "vbar_el1" -> [c EXCEPT !.vbar_el1 = value]
                    [] reg = "vbar_el2" -> [c EXCEPT !.vbar_el2 = value]
                    [] reg = "vbar_el3" -> [c EXCEPT !.vbar_el3 = value]
                    [] reg = "scr_el3" -> [c EXCEPT !.scr_el3 = Bits(value)]
                    [] reg = "hcr_el2" -> [c EXCEPT !.hcr_el2 = Bits(value)])

\* the handlers of the exception pipeline by name
Handler(h, c) ==
    CASE h = "arm_reset" -> arm_reset(c)
      [] h = "arm_undefined" -> arm_undefined(c)
      [] h = "arm_svc" -> arm_svc(c)
      [] h = "arm_hvc" -> arm_hvc(c)
      [] h = "arm_smc" -> arm_smc(c)
      [] h = "arm_prefetch_abort" -> arm_prefetch_abort(c)
      [] h = "arm_data_abort" -> arm_data_abort(c)
      [] h = "a32_address_exception" -> a32_address_exception(c)
      [] h = "arm_interrupt" -> arm_interrupt(c)
      [] h = "arm_fast_interrupt" -> arm_fast_interrupt(c)
      [] h = "arm_serror" -> arm_serror(c)
      [] h = "arm_breakpoint" -> arm_breakpoint(c)
      [] h = "arm_unaligned" -> arm_unaligned(c)
      [] h = "arm_unaligned_pc" -> arm_unaligned_pc(c)
      [] h = "a64_unaligned_sp" -> a64_unaligned_sp(c)
      [] h = "arm_software_step" -> arm_software_step(c)

(***************************************************************************)
(* Start-up (main.c main): construction, the initial instruction set, the  *)
(* data endianness and the break-capture switch.                           *)
(***************************************************************************)
\* main.c arm_names: the processors modelled, with ARMVn_DEFAULT_FEATURES and
\* ARMVn_ISAS written out (feature bits the model never reads are left out;
\* 0 is the low bit of the profile field, set for ARM_PROFILE_A)
arm_names ==
    [n \in {"2", "3", "4t", "5tej", "6z", "7-a", "7ve", "8-a"} |->
        IF n = "2" THEN [version |-> ARMV2, features |-> {FEATURE_ARM26}, isas |-> {ISA_AARCH26}]
        ELSE IF n = "3" THEN [version |-> ARMV3, features |-> {FEATURE_ARM26, FEATURE_ARM32},
                              isas |-> {ISA_AARCH26, ISA_AARCH32}]
        ELSE IF n = "4t" THEN [version |-> ARMV4, features |-> {FEATURE_ARM32, FEATURE_THUMB},
                               isas |-> {ISA_AARCH32, ISA_THUMB32}]
        ELSE IF n = "5tej" THEN [version |-> ARMV5,
                                 features |-> {FEATURE_ARM32, FEATURE_THUMB, FEATURE_ENH_DSP, FEATURE_JAZELLE},
                                 isas |-> {ISA_AARCH32, ISA_THUMB32, ISA_JAZELLE}]
        ELSE IF n = "6z" THEN [version |-> ARMV6,
                               features |-> {FEATURE_ARM32, FEATURE_THUMB, FEATURE_ENH_DSP, FEATURE_JAZELLE,
                                             FEATURE_SECURITY},
                               isas |-> {ISA_AARCH32, ISA_THUMB32, ISA_JAZELLE}]
        ELSE IF n = "7-a" THEN [version |-> ARMV7,
                                features |-> {0, FEATURE_ARM32, FEATURE_THUMB, FEATURE_ENH_DSP, FEATURE_JAZELLE,
                                              FEATURE_THUMB2},
                                isas |-> {ISA_AARCH32, ISA_THUMB32, ISA_JAZELLE, ISA_THUMBEE}]
        ELSE IF n = "7ve" THEN [version |-> ARMV7,
                                features |-> {0, FEATURE_ARM32, FEATURE_THUMB, FEATURE_ENH_DSP, FEATURE_JAZELLE,
                                              FEATURE_THUMB2, FEATURE_VIRTUALIZATION},
                                isas |-> {ISA_AARCH32, ISA_THUMB32, ISA_JAZELLE, ISA_THUMBEE}]
        ELSE [version |-> ARMV8,
              features |-> {0, FEATURE_ARM32, FEATURE_THUMB, FEATURE_ENH_DSP, FEATURE_JAZELLE, FEATURE_THUMB2,
                            FEATURE_SECURITY, FEATURE_VIRTUALIZATION, FEATURE_ARM64},
              isas |-> {ISA_AARCH32, ISA_THUMB32, ISA_JAZELLE, ISA_AARCH64}]]

main_start(name, isa, endian, capture) ==
    LET config == [version |-> arm_names[name].version, features |-> arm_names[name].features,
                   thumb_implementation |-> ARM_NO_THUMB, jazelle_implementation |-> ARM_JAVA_DEFAULT]
        c0 == arm_set_isa(arm_emu_init(config, arm_names[name].isas \cup {isa}), isa)
        c1 == IF endian = ARM_ENDIAN_BIG THEN [c0 EXCEPT !.pstate.e = 1]
              ELSE IF endian = ARM_ENDIAN_SWAPPED THEN [c0 EXCEPT !.sctlr_el1 = @ \cup {SCTLR_B}]
              ELSE c0
    IN  [c1 EXCEPT !.capture_breaks = capture]

(***************************************************************************)
(* Specification SpecJ: the operand stack driven by push, pop, peek and    *)
(* spill, next to a plain sequence that receives the same operations.      *)
(***************************************************************************)
\* the words pushed
JWords == {7, 16909060}
\* where the operand stack starts: (LOC + loc_count + 3) & ~3
JStackBase == 4 * 4

InitJ ==
    /\ \E endian \in {ARM_ENDIAN_LITTLE, ARM_ENDIAN_BIG, ARM_ENDIAN_SWAPPED} :
          cpu = [main_start("5tej", ISA_JAZELLE, endian, TRUE)
                    EXCEPT !.r[J32_TOS] = JStackBase]
    /\ jstack = << >>
    /\ obs = [op |-> "start", got |-> 0, want |-> 0, refill |-> FALSE]
    /\ pre = cpu
    /\ steps = 0

\* whether an operation needing n live registers has to reload from memory
JRefills(c, n) == j32_get_fast_stack_size(c) < n /\ a32_register_get32(c, J32_TOS) > JStackBase

JPush ==
    \E value \in JWords :
        /\ steps < MaxJOps
        /\ Len(jstack) < MaxJDepth
        /\ cpu' = j32_push_word(cpu, value)
        /\ jstack' = Append(jstack, value)
        /\ obs' = [op |-> "push", got |-> value, want |-> value, refill |-> FALSE]
        /\ steps' = steps + 1 /\ UNCHANGED pre

JPop ==
    /\ steps < MaxJOps
    /\ Len(jstack) > 0
    /\ LET p == j32_pop_word(cpu)
       IN  /\ cpu' = p.cpu
           /\ obs' = [op |-> "pop", got |-> p.value, want |-> jstack[Len(jstack)],
                      refill |-> JRefills(cpu, 1)]
    /\ jstack' = SubSeq(jstack, 1, Len(jstack) - 1)
    /\ steps' = steps + 1 /\ UNCHANGED pre

JPeek ==
    \E index \in 0 .. MaxJDepth - 1 :
        /\ steps < MaxJOps
        /\ index < Len(jstack)
        /\ LET p == j32_peek_word(cpu, index)
           IN  /\ cpu' = p.cpu
               /\ obs' = [op |-> "peek", got |-> p.value, want |-> jstack[Len(jstack) - index],
                          refill |-> JRefills(cpu, index + 1)]
        /\ steps' = steps + 1 /\ UNCHANGED << jstack, pre >>

JSpill ==
    /\ steps < MaxJOps
    /\ j32_get_fast_stack_size(cpu) > 0
    /\ cpu' = j32_spill_fast_stack(cpu)
    /\ obs' = [op |-> "spill", got |-> 0, want |-> 0, refill |-> FALSE]
    /\ steps' = steps + 1 /\ UNCHANGED << jstack, pre >>

NextJ == JPush \/ JPop \/ JPeek \/ JSpill

SpecJ == InitJ /\ [][NextJ]_vars

\* the words in memory from the stack base up to TOS, oldest first
RECURSIVE JMemoryPart(_, _)
JMemoryPart(c, address) ==
    IF address >= a32_register_get32(c, J32_TOS) THEN << >>
    ELSE << a32_read32(c, address) >> \o JMemoryPart(c, address + 4)

\* the words held in R0-R3, oldest first
JRegisterPart(c) ==
    LET size == j32_get_fast_stack_size(c)
    IN  [k \in 1 .. size |-> a32_register_get32(c, j32_get_fast_stack_element(c, size - k))]

\* C1: the fast stack is a plain stack: the words in memory below TOS followed
\* by the live registers are the pushed words in order, every pop and peek
\* returns the word the plain stack holds at that place, the live count stays
\* within 0..4 and the top index within 0..3.
C1_FastStackIsPlainStack ==
    /\ JMemoryPart(cpu, JStackBase) \o JRegisterPart(cpu) = jstack
    /\ obs.got = obs.want
    /\ j32_get_fast_stack_size(cpu) \in 0 .. 4
    /\ j32_get_fast_stack_top(cpu) \in 0 .. 3

\* a pop that had to refill a register from memory after an earlier spill, and
\* returned a word pushed before that spill
C1_Witness ==
    /\ obs.op = "pop"
    /\ obs.refill
    /\ obs.got = 16909060
    /\ Len(jstack) > 0

(***************************************************************************)
(* Specification SpecX: exclusive loads, exclusive stores and ordinary     *)
(* stores, each one instruction of an ARM-state program.  The base         *)
(* register is R0, which stays 0, so the offset is the address.            *)
(***************************************************************************)
\* the addresses the instructions use
XAddrs == {0, 8, 9, 10, 12, 16}
\* the word an exclusive store writes, and the word an ordinary store writes
XValue == 16909060
StrValue == 84281096

\* what an instruction leaves in obs: its name, the address after the
\* alignment rule, the access size, the value returned, whether it faulted,
\* the monitor range [lo, hi] as the last exclusive load left it (lo > hi
\* before any), whether an ordinary store has since written into it, and
\* whether an exception has since been entered
Observe(op, c, address, size, value, lo, hi, hit) ==
    [op |-> op, address |-> address, size |-> size, value |-> value, fault |-> Faulted(c),
     lo |-> lo, hi |-> hi, hit |-> hit, entered |-> FALSE]

InitX ==
    /\ \E name \in {"6z", "7-a"} : cpu = main_start(name, ISA_AARCH32, ARM_ENDIAN_LITTLE, TRUE)
    /\ jstack = << >>
    /\ obs = Observe("start", cpu, 0, 0, 0, 1, 0, FALSE)
    /\ pre = cpu
    /\ steps = 0

\* LDREXB, LDREXH, LDREX at [R0, #address], in a run of at most bound instructions
LdrexAt(address, size, bound) ==
    \E c \in {Begin(cpu)} :
        \E r \in {a32_ldrex_size(c, 0, address, size)} :
            /\ steps < bound
            /\ cpu' = r.cpu
            /\ obs' = IF Faulted(r.cpu) THEN [obs EXCEPT !.op = "ldrex", !.fault = TRUE, !.entered = TRUE]
                      ELSE Observe("ldrex", r.cpu, Aligned(c, address, size), size, r.value,
                                   r.cpu.exclusive_start, r.cpu.exclusive_end, FALSE)
            /\ pre' = c
            /\ steps' = steps + 1
            /\ UNCHANGED jstack

Ldrex == \E address \in XAddrs, size \in {1, 2, 4} : LdrexAt(address, size, MaxXSteps)

\* LDREXD into R2 and R3
Ldrexd ==
    \E address \in XAddrs :
        \E c \in {Begin(cpu)} :
            \E c1 \in {a32_ldrexd(c, 2, 3, 0, address)} :
                /\ steps < MaxXSteps
                /\ cpu' = c1
                /\ obs' = IF Faulted(c1) THEN [obs EXCEPT !.op = "ldrexd", !.fault = TRUE]
                          ELSE Observe("ldrexd", c1, Aligned(c, address, 8), 8, 0,
                                       c1.exclusive_start, c1.exclusive_end, FALSE)
                /\ pre' = c
                /\ steps' = steps + 1
                /\ UNCHANGED jstack

\* STREXB, STREXH, STREX of XValue at [R0, #address], in a run of at most
\* bound instructions
StrexAt(address, size, bound) ==
    \E c \in {Begin(cpu)} :
        \E r \in {a32_strex_size(c, XValue, 0, address, size)} :
            /\ steps < bound
            /\ cpu' = r.cpu
            /\ obs' = [obs EXCEPT !.op = "strex", !.address = Aligned(c, address, size), !.size = size,
                                  !.value = r.value, !.fault = Faulted(r.cpu),
                                  !.entered = @ \/ Faulted(r.cpu)]
            /\ pre' = c
            /\ steps' = steps + 1
            /\ UNCHANGED jstack

Strex == \E address \in XAddrs, size \in {1, 2, 4} : StrexAt(address, size, MaxXSteps)

\* STREXD from R2 and R3
Strexd ==
    \E address \in XAddrs :
        \E c \in {Begin(cpu)} :
            \E r \in {a32_strexd(c, 2, 3, 0, address)} :
                /\ steps < MaxXSteps
                /\ cpu' = r.cpu
                /\ obs' = [obs EXCEPT !.op = "strexd", !.address = Aligned(c, address, 8), !.size = 8,
                                      !.value = r.value, !.fault = Faulted(r.cpu)]
                /\ pre' = c
                /\ steps' = steps + 1
                /\ UNCHANGED jstack

\* STR
Str ==
    \E address \in XAddrs :
        \E c \in {Begin(cpu)} :
            \E c1 \in {a32_str(c, StrValue, 0, address)} :
                /\ steps < MaxXSteps
                /\ cpu' = c1
                /\ obs' = [obs EXCEPT !.op = "str", !.address = address, !.size = 4, !.value = 0,
                                      !.fault = Faulted(c1),
                                      !.hit = @ \/ \E a \in Addr : /\ c1.memory[a] # c.memory[a]
                                                                   /\ obs.lo <= a /\ a <= obs.hi]
                /\ pre' = c
                /\ steps' = steps + 1
                /\ UNCHANGED jstack

NextX == Ldrex \/ Ldrexd \/ Strex \/ Strexd \/ Str

SpecX == InitX /\ [][NextX]_vars

\* the bytes [address, address + size - 1] all lie in the monitor's range
InMonitor(c, address, size) == c.exclusive_start <= address /\ address + size - 1 <= c.exclusive_end

\* the monitor holds no range
MonitorEmpty(c) == c.exclusive_start > c.exclusive_end

\* C2: an exclusive store returns 0 and writes exactly when all the bytes it
\* addresses lie inside the monitor's range; otherwise it returns 1 and
\* memory is as before.
C2_StrexOnlyInsideMonitor ==
    (obs.op \in {"strex", "strexd"} /\ ~obs.fault) =>
        /\ (obs.value = 0) <=> InMonitor(pre, obs.address, obs.size)
        /\ (obs.value = 1) => cpu.memory = pre.memory
        /\ (obs.value = 0) => cpu.memory # pre.memory

\* C3: once an ordinary store has written a byte of the range an exclusive
\* load reserved, the monitor is empty and an exclusive store returns 1.
C3_StoreClearsMonitor ==
    obs.hit =>
        /\ MonitorEmpty(cpu)
        /\ (obs.op \in {"strex", "strexd"} /\ ~obs.fault) => obs.value = 1

(***************************************************************************)
(* Specification SpecE: the exception pipeline.  Each step is one           *)
(* instruction of a program on one of the processors of arm_names, started  *)
(* in one of its instruction sets with breaks captured or not: an           *)
(* instruction that completes, an exclusive load, an MSR, an instruction    *)
(* that enters a handler, or an instruction during which an interrupt or    *)
(* reset handler is called.                                                 *)
(***************************************************************************)
\* the instruction sets started in (Jazelle programs are the subject of SpecJ)
EIsas == {ISA_AARCH26, ISA_AARCH32, ISA_THUMB32, ISA_THUMBEE, ISA_AARCH64}
\* the entry point of the program
EEntry == 8 * 4
\* the addresses of the exclusive loads
EAddrs == {8, 12}
\* the values MSR writes: a vector base with low bits set, SCR_EL3.RW and HCR_EL2.RW
EVbar == 4096 + 4
EMsr == [vbar_el1 |-> EVbar, vbar_el2 |-> 2 * EVbar, vbar_el3 |-> 3 * EVbar,
         scr_el3 |-> 2 ^ SCR_EL3_RW, hcr_el2 |-> (-2147483647) - 1]

\* the handlers an instruction enters by itself, and those called from outside
TrapHandlers ==
    {"arm_undefined", "arm_svc", "arm_hvc", "arm_smc", "arm_prefetch_abort", "arm_data_abort",
     "a32_address_exception", "arm_breakpoint", "arm_unaligned", "arm_unaligned_pc",
     "a64_unaligned_sp", "arm_software_step"}
InterruptHandlers == {"arm_reset", "arm_interrupt", "arm_fast_interrupt", "arm_serror"}

\* where the handlers are called from: a32_address_exception only from
\* a26_check_address under a32_is_data26, a64_unaligned_sp only from the A64
\* SP accesses, arm_software_step only in AArch64; HVC and SMC are decoded on
\* processors with the virtualization and the security extension
Raisable(h, c) ==
    /\ h \in {"a64_unaligned_sp", "arm_software_step"} => c.pstate.rw = PSTATE_RW_64
    /\ h = "a32_address_exception" => a32_is_data26(c)
    /\ h = "arm_hvc" => c.el2_supported
    /\ h = "arm_smc" => c.el3_supported

InitE ==
    /\ \E name \in DOMAIN arm_names, capture \in BOOLEAN :
          \E isa \in arm_names[name].isas \cap EIsas :
              cpu = [main_start(name, isa, ARM_ENDIAN_LITTLE, capture) EXCEPT !.r[PC] = EEntry]
    /\ jstack = << >>
    /\ obs = Observe("start", cpu, 0, 0, 0, 1, 0, FALSE)
    /\ pre = cpu
    /\ steps = 0

\* an instruction that completes
Execute ==
    /\ steps < MaxESteps
    /\ cpu' = Begin(cpu)
    /\ obs' = [obs EXCEPT !.op = "step", !.fault = Faulted(cpu')]
    /\ pre' = cpu'
    /\ steps' = steps + 1
    /\ UNCHANGED jstack

\* LDREX in the AArch32 instruction sets
ELdrex ==
    \E address \in EAddrs :
        /\ cpu.pstate.rw # PSTATE_RW_64
        /\ LdrexAt(address, 4, MaxESteps)

\* STREX in the AArch32 instruction sets
EStrex ==
    \E address \in EAddrs :
        /\ cpu.pstate.rw # PSTATE_RW_64
        /\ StrexAt(address, 4, MaxESteps)

\* MSR to one of the registers the pipeline reads
Msr ==
    \E reg \in DOMAIN EMsr :
        \E c \in {Begin(cpu)} :
            /\ steps < MaxESteps
            /\ c.pstate.rw = PSTATE_RW_64
            /\ ~Faulted(c)
            /\ cpu' = a64_perform_msr(c, reg, EMsr[reg])
            /\ obs' = [obs EXCEPT !.op = "msr", !.fault = TRUE, !.entered = TRUE]
            /\ pre' = c
            /\ steps' = steps + 1
            /\ UNCHANGED jstack

\* the instruction enters handler h, or h is called while it executes
Enter(h) ==
    \E c \in {Begin(cpu)} :
        /\ steps < MaxESteps
        /\ ~Faulted(c)
        /\ Raisable(h, c)
        /\ cpu' = Handler(h, c)
        /\ obs' = [obs EXCEPT !.op = h, !.fault = TRUE, !.entered = TRUE]
        /\ pre' = c
        /\ steps' = steps + 1
        /\ UNCHANGED jstack

Trap == \E h \in TrapHandlers : Enter(h)

Interrupt == \E h \in InterruptHandlers : Enter(h)

NextE == Execute \/ ELdrex \/ EStrex \/ Msr \/ Trap \/ Interrupt

SpecE == InitE /\ [][NextE]_vars

\* every handler of the pipeline
Handlers == TrapHandlers \cup InterruptHandlers

\* C4: once a load-exclusive has recorded a range, an exception entry (through
\* a32_exception, through a64_exception or as a captured break) leaves the
\* monitor empty, and a store-exclusive that follows without a new
\* load-exclusive returns 1.
C4_ExceptionClearsMonitor ==
    (obs.entered /\ obs.lo <= obs.hi) =>
        /\ MonitorEmpty(cpu)
        /\ (obs.op = "strex" /\ ~obs.fault) => obs.value = 1

\* the result code of each handler's own fault kind
FaultKind ==
    [h \in Handlers |->
        CASE h = "arm_reset" -> ARM_EMU_RESET
          [] h = "arm_undefined" -> ARM_EMU_UNDEFINED
          [] h = "arm_svc" -> ARM_EMU_SVC
          [] h = "arm_hvc" -> ARM_EMU_HVC
          [] h = "arm_smc" -> ARM_EMU_SMC
          [] h = "arm_prefetch_abort" -> ARM_EMU_PREFETCH_ABORT
          [] h = "arm_data_abort" -> ARM_EMU_DATA_ABORT
          [] h = "a32_address_exception" -> ARM_EMU_ADDRESS26
          [] h = "arm_interrupt" -> ARM_EMU_IRQ
          [] h = "arm_fast_interrupt" -> ARM_EMU_FIQ
          [] h = "arm_serror" -> ARM_EMU_SERROR
          [] h = "arm_breakpoint" -> ARM_EMU_BREAKPOINT
          [] h = "arm_unaligned" -> ARM_EMU_UNALIGNED
          [] h = "arm_unaligned_pc" -> ARM_EMU_UNALIGNED_PC
          [] h = "a64_unaligned_sp" -> ARM_EMU_UNALIGNED_SP
          [] h = "arm_software_step" -> ARM_EMU_SOFTWARE_STEP]

\* C5: with breaks captured, the step in which a handler is entered ends with
\* the result code of that handler's own fault kind; an undefined encoding
\* ends with Undefined, which is not the code of a supervisor call.
C5_ResultIsOwnFaultKind ==
    (obs.op \in Handlers /\ pre.capture_breaks) =>
        /\ cpu.result = FaultKind[obs.op]
        /\ obs.op = "arm_undefined" => cpu.result # ARM_EMU_SVC

\* the return address an entry routine saved lies between the instruction
\* and two instructions past it
NearInstruction(address, c) == c.old_pc <= address /\ address <= c.old_pc + 8

\* the handler entry state after an exception from state p: the target mode
\* or level set, the return address and the old PSTATE saved, PC at the vector
A32EntryState(c, p) ==
    /\ c.pstate.rw # PSTATE_RW_64
    /\ c.pstate.mode = c.entry.mode
    /\ c.r[PC] = c.entry.address
    /\ IF c.pstate.rw = PSTATE_RW_26
       THEN NearInstruction((c.r[a32_register_mode(c, 14, c.entry.mode)] % 67108864)
                            - (c.r[a32_register_mode(c, 14, c.entry.mode)] % 4), p)
       ELSE /\ NearInstruction(c.r[IF c.entry.mode = MODE_HYP THEN ELR_HYP
                                   ELSE a32_register_mode(c, 14, c.entry.mode)], p)
            /\ \E spsr \in {SPSR_SVC, SPSR_ABT, SPSR_UND, SPSR_IRQ, SPSR_FIQ, SPSR_HYP, SPSR_MON} :
                   c.r[spsr] = a32_get_cpsr(p)

A64EntryState(c, p) ==
    /\ c.pstate.rw = PSTATE_RW_64
    /\ c.pstate.el = c.entry.mode
    /\ NearInstruction(c.r[ELR_EL1 - 1 + c.entry.mode], p)
    /\ c.r[SPSR_EL1 - 1 + c.entry.mode] = a64_get_cpsr(p)
    /\ c.r[PC] % 128 = 0

\* C6: the outcome of a fault is one of two: with breaks captured the step
\* ends with a fault code and no handler transfer (mode, level, register
\* width and every register but PC as they were); with breaks not captured it
\* ends with OK and the processor in the handler entry state.
C6_FaultOutcomeIsBinary ==
    obs.op \in Handlers =>
        IF pre.capture_breaks
        THEN /\ cpu.result # ARM_EMU_OK
             /\ cpu.pstate.mode = pre.pstate.mode
             /\ cpu.pstate.el = pre.pstate.el
             /\ cpu.pstate.rw = pre.pstate.rw
             /\ \A n \in 0 .. REG_COUNT - 1 : n # PC => cpu.r[n] = pre.r[n]
        ELSE /\ cpu.result = ARM_EMU_OK
             /\ \/ cpu.entry.fn = "a32_exception" /\ A32EntryState(cpu, pre)
                \/ cpu.entry.fn = "a64_exception" /\ A64EntryState(cpu, pre)

\* C7 as stated: with breaks captured, every handler leaves R[PC] at the
\* address of the instruction that was being executed.
C7_EveryHandlerRewinds ==
    (obs.op \in Handlers /\ pre.capture_breaks) => cpu.r[PC] = pre.old_pc

\* the handlers whose first statement is cpu->r[PC] = cpu->old_pc
RewindingHandlers ==
    {"arm_undefined", "arm_prefetch_abort", "arm_data_abort", "a32_address_exception", "arm_breakpoint",
     "arm_unaligned", "arm_unaligned_pc", "a64_unaligned_sp", "arm_software_step"}

\* C7: with breaks captured, the fault handlers (undefined, prefetch abort,
\* data abort, address exception, breakpoint, the three alignment faults and
\* software step) leave R[PC] at the address of the instruction that was being
\* executed; reset, svc, hvc, smc, irq, fiq and serror leave R[PC] where the
\* fetch put it, past the instruction.
C7_FaultHandlersRewind ==
    (obs.op \in Handlers /\ pre.capture_breaks) =>
        cpu.r[PC] = IF obs.op \in RewindingHandlers THEN pre.old_pc ELSE pre.r[PC]

\* a data abort with breaks captured, raised after the fetch moved PC on
C7_Witness ==
    /\ obs.op = "arm_data_abort"
    /\ pre.capture_breaks
    /\ pre.r[PC] = pre.old_pc + 4
    /\ cpu.r[PC] = pre.old_pc
    /\ cpu.result = ARM_EMU_DATA_ABORT

\* C8: on a processor without A64 support, a fault raised in an AArch32 state
\* with breaks not captured is delivered through a32_exception: afterwards
\* PSTATE.rw is 26 or 32, PSTATE.mode is the target mode, that mode's R14
\* holds the return address and (in 32-bit configuration) its SPSR the old CPSR.
C8_NoA64MeansA32Entry ==
    (/\ obs.op \in Handlers
     /\ ~pre.capture_breaks
     /\ FEATURE_ARM64 \notin pre.config.features
     /\ pre.pstate.rw # PSTATE_RW_64) =>
        /\ cpu.entry.fn = "a32_exception"
        /\ cpu.pstate.rw \in {PSTATE_RW_26, PSTATE_RW_32}
        /\ A32EntryState(cpu, pre)
        /\ cpu.pstate.rw = PSTATE_RW_32 => cpu.r[a32_spsr_for_mode[cpu.pstate.mode + 1]] = a32_get_cpsr(pre)

\* C9: after a64_exception to level t on a processor with A64: PSTATE.EL = t,
\* SP-select = 1, D = A = I = F = 1, ELR_ELt holds the PC handed over and
\* SPSR_ELt the old PSTATE image.
C9_A64EntrySetsLevel ==
    (/\ obs.op \in Handlers
     /\ cpu.entry.fn = "a64_exception"
     /\ FEATURE_ARM64 \in cpu.config.features) =>
        /\ cpu.pstate.el = cpu.entry.mode
        /\ cpu.pstate.sp = 1
        /\ cpu.pstate.d = 1 /\ cpu.pstate.a = 1 /\ cpu.pstate.i = 1 /\ cpu.pstate.f = 1
        /\ cpu.r[ELR_EL1 - 1 + cpu.entry.mode] \in {pre.r[PC], pre.old_pc}
        /\ cpu.r[SPSR_EL1 - 1 + cpu.entry.mode] = a64_get_cpsr(pre)

\* VBAR of level t with its low 11 bits cleared
VectorBase(c, t) ==
    LET vbar == IF t = 1 THEN c.vbar_el1 ELSE IF t = 2 THEN c.vbar_el2 ELSE c.vbar_el3
    IN  vbar - (vbar % 2048)

\* C10: after a64_exception to level t, PC is VBAR_ELt (low 11 bits cleared)
\* plus the vector offset, raised by 0x200 when taken from level t with
\* SP-select = 1, by 0x400 when taken from a lower level and level t-1 runs
\* AArch64, by 0x600 when level t-1 runs AArch32.
C10_A64VectorAddress ==
    (/\ obs.op \in Handlers
     /\ cpu.entry.fn = "a64_exception"
     /\ FEATURE_ARM64 \in cpu.config.features) =>
        cpu.r[PC] = VectorBase(pre, cpu.entry.mode) + cpu.entry.address
                    + (IF pre.pstate.el < cpu.entry.mode
                       THEN (IF a64_el_uses_aarch64(pre, cpu.entry.mode - 1) THEN 1024 ELSE 1536)
                       ELSE IF pre.pstate.sp = 1 THEN 512 ELSE 0)

(***************************************************************************)
(* Thumb IT blocks (emu.c t32_in_it_block .. t32_check_condition): an IT   *)
(* instruction, guarded Thumb instructions, and exceptions between them.   *)
(***************************************************************************)
\* emu.c a32_check_condition
a32_check_condition(c, code) ==
    LET p == c.pstate
        k == code % 16
    IN  CASE k = 0 -> p.z # 0
          [] k = 1 -> p.z = 0
          [] k = 2 -> p.c # 0
          [] k = 3 -> p.c = 0
          [] k = 4 -> p.n # 0
          [] k = 5 -> p.n = 0
          [] k = 6 -> p.v # 0
          [] k = 7 -> p.v = 0
          [] k = 8 -> p.c # 0 /\ p.z = 0
          [] k = 9 -> p.c = 0 \/ p.z # 0
          [] k = 10 -> (p.n = 0) = (p.v = 0)
          [] k = 11 -> (p.n = 0) # (p.v = 0)
          [] k = 12 -> ((p.n = 0) = (p.v = 0)) /\ p.z # 0
          [] k = 13 -> ((p.n = 0) # (p.v = 0)) \/ p.z = 0
          [] k = 14 -> TRUE
          [] OTHER -> FALSE

\* emu.c t32_set_it_state
t32_set_it_state(c, itstate) == [c EXCEPT !.pstate.it = itstate % 256]

\* emu.c t32_in_it_block
t32_in_it_block(c) == c.pstate.it % 16 # 0

\* emu.c t32_check_condition
t32_check_condition(c) ==
    IF ~t32_in_it_block(c) THEN TRUE
    ELSE LET itstate == c.pstate.it
             condition == a32_check_condition(c, (itstate \div 32) * 2)
         IN  IF (itstate \div 16) % 2 = 1 THEN ~condition ELSE condition

\* the generated t32_step, IT instruction: the low byte of the opcode,
\* (firstcond << 4) | mask, becomes the IT state
t32_it(c, firstcond, mask) == t32_set_it_state(c, firstcond * 16 + mask)

\* the effect that writes 1 to R1; any other effect is the flags <<N, Z, C, V>>
\* a compare leaves
TMov == << >>

\* the generated t32_step, any other instruction: its effect happens only
\* when t32_check_condition passes, and the IT state advances either way
t32_instruction(c, effect) ==
    t32_advance_it(IF ~t32_check_condition(c) THEN c
                   ELSE IF effect = TMov THEN [c EXCEPT !.r[1] = 1]
                   ELSE [c EXCEPT !.pstate.n = effect[1], !.pstate.z = effect[2],
                                  !.pstate.c = effect[3], !.pstate.v = effect[4]])

\* instructions executed in one run of the IT model
MaxTSteps == 7
\* processors with Thumb-2
TNames == {n \in DOMAIN arm_names : FEATURE_THUMB2 \in arm_names[n].features}
\* first conditions an IT instruction may name (AL only without else slots)
TConds == {0, 1, 12, 13, 14}
TMasks == 1 .. 15
\* flag outcomes <<N, Z, C, V>> of a compare
TFlags == {<<0, 1, 1, 0>>, <<1, 0, 0, 0>>}
\* exceptions raised between the instructions
THandlers == {"arm_svc", "arm_data_abort"}

\* the number of instructions an IT mask guards: 4 less the position of its
\* lowest set bit
BlockLength(mask) ==
    IF mask % 2 = 1 THEN 4 ELSE IF mask % 4 = 2 THEN 3 ELSE IF mask % 8 = 4 THEN 2
    ELSE IF mask % 16 = 8 THEN 1 ELSE 0

InitT ==
    /\ \E name \in TNames, capture \in BOOLEAN :
          cpu = [main_start(name, ISA_THUMB32, ARM_ENDIAN_LITTLE, capture) EXCEPT !.r[PC] = EEntry]
    /\ jstack = << >>
    /\ obs = [op |-> "start", fault |-> FALSE, entered |-> FALSE, executed |-> FALSE,
              cond |-> 0, mask |-> 0, slot |-> 0, tracked |-> FALSE]
    /\ pre = cpu
    /\ steps = 0

\* whether the processor is about to run a Thumb instruction
InThumb(c) == c.pstate.rw = PSTATE_RW_32 /\ c.pstate.jt \in {PSTATE_JT_THUMB, PSTATE_JT_THUMBEE}

\* an IT instruction outside an IT block
It ==
    /\ steps < MaxTSteps
    /\ InThumb(cpu)
    /\ \E c \in {Begin(cpu)} :
          /\ ~t32_in_it_block(c)
          /\ \E firstcond \in TConds, mask \in TMasks :
                /\ firstcond = 14 => mask \in {8, 4, 2, 1}
                /\ cpu' = t32_it(c, firstcond, mask)
                /\ obs' = [obs EXCEPT !.op = "it", !.executed = TRUE, !.cond = firstcond,
                                      !.mask = mask, !.slot = 0, !.tracked = TRUE]
          /\ pre' = c
    /\ steps' = steps + 1
    /\ UNCHANGED jstack

\* any other Thumb instruction: a move of 1 to R1, or a compare
Thumb ==
    /\ steps < MaxTSteps
    /\ InThumb(cpu)
    /\ \E c \in {Begin(cpu)} :
          /\ \E effect \in {TMov} \cup TFlags : cpu' = t32_instruction(c, effect)
          /\ obs' = IF obs.tracked /\ obs.slot <= BlockLength(obs.mask)
                    THEN [obs EXCEPT !.op = "instr", !.executed = t32_check_condition(c),
                                     !.slot = obs.slot + 1]
                    ELSE [obs EXCEPT !.op = "instr", !.executed = t32_check_condition(c),
                                     !.cond = 0, !.mask = 0, !.slot = 0, !.tracked = FALSE]
          /\ pre' = c
    /\ steps' = steps + 1
    /\ UNCHANGED jstack

\* an exception in place of the instruction
TTrap ==
    /\ steps < MaxTSteps
    /\ InThumb(cpu)
    /\ \E c \in {Begin(cpu)} :
          /\ \E h \in THandlers :
                /\ cpu' = Handler(h, c)
                /\ obs' = [obs EXCEPT !.op = h, !.fault = TRUE, !.entered = TRUE, !.cond = 0,
                                      !.mask = 0, !.slot = 0, !.tracked = FALSE]
          /\ pre' = c
    /\ steps' = steps + 1
    /\ UNCHANGED jstack

NextT == It \/ Thumb \/ TTrap

SpecT == InitT /\ [][NextT]_vars

\* C11 as stated: after an exception taken in an IT block, delivered or
\* captured, PSTATE.IT is 0; without an exception the IT state advances by
\* one position per Thumb instruction, executed or skipped.
C11_ExceptionZeroesIT ==
    /\ (obs.op \in THandlers /\ t32_in_it_block(pre)) => cpu.pstate.it = 0
    /\ obs.op = "instr" => cpu.pstate.it = t32_advance_it(pre).pstate.it

\* C11 (amended): an exception delivered to a vector in an IT block leaves
\* PSTATE.IT = 0; one captured as a result code advances the IT state by one
\* position, as a completed instruction does; without an exception the IT
\* state advances by one position per Thumb instruction, executed or skipped.
C11_DeliveredZeroesCapturedAdvances ==
    /\ (obs.op \in THandlers /\ t32_in_it_block(pre)) =>
          cpu.pstate.it = (IF cpu.entry.fn = "arm_break_emulation"
                           THEN t32_advance_it(pre).pstate.it ELSE 0)
    /\ obs.op = "instr" => cpu.pstate.it = t32_advance_it(pre).pstate.it

\* an exception captured in a slot that is not the last of its block
C11_Witness ==
    /\ obs.op \in THandlers
    /\ t32_in_it_block(pre)
    /\ cpu.entry.fn = "arm_break_emulation"
    /\ cpu.pstate.it # 0

\* whether condition code cond holds on the flags of p (the architecture's
\* condition table: GT is Z = 0 and N = V, LE is Z = 1 or N # V)
ConditionPassed(cond, p) ==
    LET base == CASE cond \div 2 = 0 -> p.z = 1
                  [] cond \div 2 = 1 -> p.c = 1
                  [] cond \div 2 = 2 -> p.n = 1
                  [] cond \div 2 = 3 -> p.v = 1
                  [] cond \div 2 = 4 -> p.c = 1 /\ p.z = 0
                  [] cond \div 2 = 5 -> p.n = p.v
                  [] cond \div 2 = 6 -> p.n = p.v /\ p.z = 0
                  [] OTHER -> TRUE
    IN  IF cond % 2 = 1 /\ cond # 15 THEN ~base ELSE base

\* the condition of slot k of the block IT loaded with (cond << 4) | mask:
\* cond itself in slot 1, then cond with its low bit replaced by the mask
\* bit of the slot
SlotCondition(cond, mask, k) ==
    IF k = 1 THEN cond ELSE (cond \div 2) * 2 + ((mask \div (2 ^ (5 - k))) % 2)

\* C12: after an IT instruction loads (cond << 4) | mask for a block of n
\* instructions, each of the next n Thumb instructions executes iff the
\* condition of its slot holds on the current flags, the IT state is non-zero
\* before the n-th and 0 immediately after it, and the instruction after the
\* block runs unconditionally.
C12_ITBlockGuards ==
    (obs.op = "instr" /\ obs.tracked) =>
        /\ obs.slot <= BlockLength(obs.mask) =>
              obs.executed = ConditionPassed(SlotCondition(obs.cond, obs.mask, obs.slot), pre.pstate)
        /\ obs.slot < BlockLength(obs.mask) => t32_in_it_block(cpu)
        /\ obs.slot = BlockLength(obs.mask) => cpu.pstate.it = 0
        /\ obs.slot = BlockLength(obs.mask) + 1 => obs.executed

(***************************************************************************)
(* Spilling and refilling the Jazelle register cache (jazelle.c            *)
(* j32_spill_fast_stack_size, j32_fill_fast_stack_size).                   *)
(***************************************************************************)
\* spill-all from any state of the cache
KSpill ==
    /\ steps < MaxJOps
    /\ cpu' = j32_spill_fast_stack(cpu)
    /\ pre' = cpu'
    /\ obs' = [op |-> "spill-all", got |-> 0, want |-> 0, refill |-> FALSE]
    /\ steps' = steps + 1 /\ UNCHANGED jstack

\* refill k registers from memory after a spill-all
KFill ==
    \E k \in 0 .. 4 :
        /\ steps < MaxJOps
        /\ obs.op = "spill-all"
        /\ cpu' = j32_fill_fast_stack_size(cpu, k)
        /\ obs' = [op |-> "fill", got |-> k, want |-> k, refill |-> k > 0]
        /\ steps' = steps + 1 /\ UNCHANGED << jstack, pre >>

\* spill-all again after the refill
KRespill ==
    /\ steps < MaxJOps
    /\ obs.op = "fill"
    /\ cpu' = j32_spill_fast_stack(cpu)
    /\ obs' = [obs EXCEPT !.op = "respill"]
    /\ steps' = steps + 1 /\ UNCHANGED << jstack, pre >>

NextK == JPush \/ JPop \/ KSpill \/ KFill \/ KRespill

SpecK == InitJ /\ [][NextK]_vars

Word(bits) ==
    LET F[k \in 0 .. 31] == (IF k \notin bits THEN 0 ELSE IF k = 31 THEN CPSR_N ELSE 2 ^ k)
                            + (IF k = 0 THEN 0 ELSE F[k - 1])
    IN  F[31]

\* emu.c isa_cpsr_settings
isa_cpsr_settings(isa) ==
    IF isa = ISA_AARCH32 THEN Bits(CPSR_M4)
    ELSE IF isa = ISA_THUMB32 THEN Bits(CPSR_M4 + CPSR_T)
    ELSE IF isa = ISA_JAZELLE THEN Bits(CPSR_M4 + CPSR_J)
    ELSE IF isa = ISA_THUMBEE THEN Bits(CPSR_M4 + CPSR_T + CPSR_J)
    ELSE {}

\* emu.c get_xpsr_mask: the cases of the switch fall through to the older
\* versions; CPSR_GE_MASK is bits 16..19, CPSR_IT_MASK bits 10..15, 25 and 26
get_xpsr_mask(version, features, supported_isas) ==
    (IF version >= ARMV82 THEN Bits(CPSR_UAO) ELSE {})
    \cup (IF version >= ARMV81 THEN Bits(CPSR_PAN) ELSE {})
    \cup (IF version >= ARMV8 THEN Bits(CPSR_SS + CPSR_IL) ELSE {})
    \cup (IF version >= ARMV6 THEN (16 .. 19) \cup Bits(CPSR_E + CPSR_A) ELSE {})
    \cup (IF version >= ARMV3 THEN Bits(CPSR_MODE_MASK) ELSE {})
    \cup {31} \cup Bits(CPSR_Z + CPSR_C + CPSR_V + CPSR_I + CPSR_F) \cup {0, 1}
    \cup (IF FEATURE_THUMB2 \in features THEN (10 .. 15) \cup {25, 26} ELSE {})
    \cup (IF FEATURE_ENH_DSP \in features THEN Bits(CPSR_Q) ELSE {})
    \cup UNION {isa_cpsr_settings(isa) : isa \in supported_isas}

\* emu.c get_xpsr_always_set
get_xpsr_always_set(version, features, supported_isas) ==
    Bits(CPSR_M4 + CPSR_T + CPSR_J) \ UNION {isa_cpsr_settings(isa) : isa \in supported_isas}

\* emu.c a32_set_cpsr
a32_set_cpsr(c, mask, cpsr) ==
    LET mb == Bits(mask)
        vb == Bits(cpsr)
        p == c.pstate
        f == c.config.features
        v == c.config.version
        On(m) == Bits(m) \cap mb # {}
        Val(m) == IF Bits(m) \cap vb # {} THEN 1 ELSE 0
        rw == IF On(CPSR_M4) /\ FEATURE_ARM26 \in f /\ FEATURE_ARM32 \in f /\ ~a32_is_prog26(c)
              THEN (IF Val(CPSR_M4) = 1 THEN PSTATE_RW_32 ELSE PSTATE_RW_26)
              ELSE p.rw
        mode == IF On(CPSR_MODE_MASK) THEN cpsr % 16 ELSE p.mode
        t == IF On(CPSR_T) THEN Val(CPSR_T) ELSE (p.jt % 2)
        j == IF On(CPSR_J) THEN Val(CPSR_J) ELSE p.jt \div 2
        jt == IF ~(On(CPSR_T) \/ On(CPSR_J)) THEN p.jt
              ELSE IF 2 * j + t = PSTATE_JT_ARM
                   THEN (IF FEATURE_ARM26 \notin f /\ FEATURE_ARM32 \notin f THEN PSTATE_JT_THUMB
                         ELSE PSTATE_JT_ARM)
              ELSE IF 2 * j + t = PSTATE_JT_THUMB
                   THEN (IF FEATURE_THUMB \notin f THEN PSTATE_JT_ARM ELSE PSTATE_JT_THUMB)
              ELSE IF 2 * j + t = PSTATE_JT_JAZELLE
                   THEN (IF FEATURE_JAZELLE \notin f THEN PSTATE_JT_ARM ELSE PSTATE_JT_JAZELLE)
              ELSE (IF v # ARMV7 THEN PSTATE_JT_THUMB ELSE PSTATE_JT_THUMBEE)
        Flag(m, old) == IF On(m) THEN Val(m) ELSE old
        \* a field of n bits whose bit k lives at PSR bit at(k)
        Field(old, n, at(_)) ==
            LET B[k \in 0 .. n - 1] ==
                    (2 ^ k) * (IF at(k) \in mb THEN (IF at(k) \in vb THEN 1 ELSE 0) ELSE (old \div (2 ^ k)) % 2)
                    + (IF k = 0 THEN 0 ELSE B[k - 1])
            IN  B[n - 1]
        GeAt(k) == CPSR_GE_SHIFT + k
        ItAt(k) == IF k < 2 THEN 25 + k ELSE 8 + k
    IN  [c EXCEPT !.pstate =
            [p EXCEPT !.rw = rw,
                      !.mode = IF rw = PSTATE_RW_26 THEN mode % 4 ELSE mode,
                      !.f = Flag(CPSR_F, p.f), !.i = Flag(CPSR_I, p.i),
                      !.n = Flag(CPSR_N, p.n), !.c = Flag(CPSR_C, p.c),
                      !.z = Flag(CPSR_Z, p.z), !.v = Flag(CPSR_V, p.v),
                      !.jt = jt,
                      !.q = IF FEATURE_ENH_DSP \in f THEN Flag(CPSR_Q, p.q) ELSE p.q,
                      !.a = IF v >= ARMV6 THEN Flag(CPSR_A, p.a) ELSE p.a,
                      !.e = IF v >= ARMV6 THEN Flag(CPSR_E, p.e) ELSE p.e,
                      !.ge = IF (16 .. 19) \cap mb # {} /\ v >= ARMV6 THEN Field(p.ge, 4, GeAt) ELSE p.ge,
                      !.it = IF ((10 .. 15) \cup {25, 26}) \cap mb # {} /\ FEATURE_THUMB2 \in f
                             THEN Field(p.it, 8, ItAt) ELSE p.it,
                      !.pan = IF v >= ARMV81 THEN Flag(CPSR_PAN, p.pan) ELSE p.pan,
                      !.uao = IF v >= ARMV82 THEN Flag(CPSR_UAO, p.uao) ELSE p.uao]]

\* emu.c a64_set_cpsr
a64_set_cpsr(c, cpsr) ==
    LET vb == Bits(cpsr)
        p == c.pstate
        Val(m) == IF Bits(m) \cap vb # {} THEN 1 ELSE 0
        p1 == IF Val(CPSR_M4) = 1
              THEN [p EXCEPT !.rw = PSTATE_RW_32, !.mode = cpsr % 16,
                             !.jt = Val(CPSR_T) + 2 * Val(CPSR_J),
                             !.e = Val(CPSR_E), !.ge = (cpsr \div 65536) % 16,
                             !.it = ((cpsr \div 33554432) % 4) + 4 * ((cpsr \div 1024) % 64),
                             !.q = Val(CPSR_Q)]
              ELSE [p EXCEPT !.rw = PSTATE_RW_64, !.el = (cpsr \div 4) % 4, !.sp = cpsr % 2,
                             !.d = Val(CPSR_D)]
    IN  [c EXCEPT !.pstate =
            [p1 EXCEPT !.f = Val(CPSR_F), !.i = Val(CPSR_I), !.a = Val(CPSR_A),
                       !.il = Val(CPSR_IL), !.ss = Val(CPSR_SS),
                       !.pan = IF c.config.version >= ARMV81 THEN Val(CPSR_PAN) ELSE p.pan]]

\* emu.c a32_spsr_mode_valid
a32_spsr_mode_valid(c, mode) == a32_spsr_for_mode[(mode % 16) + 1] # NONE

\* emu.c a32_set_spsr
a32_set_spsr(c, mask, value) ==
    IF ~a32_spsr_mode_valid(c, c.pstate.mode) THEN c
    ELSE LET spsr == a32_spsr_for_mode[c.pstate.mode + 1]
             m == Bits(mask) \cap get_xpsr_mask(c.config.version, c.config.features, c.supported_isas)
             val == Bits(value)
                    \cup get_xpsr_always_set(c.config.version, c.config.features, c.supported_isas)
         IN  [c EXCEPT !.r[spsr] = Word((Bits(@) \ m) \cup (val \cap m))]

\* emu.c a32_get_spsr
a32_get_spsr(c) ==
    IF ~a32_spsr_mode_valid(c, c.pstate.mode) THEN 0 ELSE c.r[a32_spsr_for_mode[c.pstate.mode + 1]]

\* emu.c a32_eret
a32_eret(c) ==
    LET c1 == [c EXCEPT !.r[PC] = IF c.pstate.mode = MODE_HYP THEN c.r[ELR_HYP]
                                  ELSE c.r[a32_register(c, 14)]]
    IN  a32_set_cpsr(c1, -1, a32_get_spsr(c1))

\* emu.c a64_eret
a64_eret(c) ==
    a64_set_cpsr([c EXCEPT !.r[PC] = c.r[ELR_EL1 - 1 + c.pstate.mode]],
                 c.r[SPSR_EL1 - 1 + c.pstate.mode])

\* operations of one run of the PSTATE model
MaxPSteps == 3
\* PSR values written: nothing, everything, and the J/T combinations in
\* several modes
PValues ==
    {0, -1, CPSR_M4 + CPSR_T + MODE_SVC, CPSR_M4 + CPSR_J + MODE_MON,
     CPSR_M4 + CPSR_T + CPSR_J + MODE_HYP, CPSR_M4 + CPSR_IL + MODE_FIQ, CPSR_N + CPSR_Q + MODE_IRQ}
\* write masks: all bits, the J/T bits
PMasks == {-1, CPSR_T + CPSR_J}
\* exceptions entered by the PSTATE model
PHandlers == {"arm_svc", "arm_data_abort", "arm_fast_interrupt"}

InitP ==
    /\ \E name \in DOMAIN arm_names :
          \E isa \in arm_names[name].isas \cap {ISA_AARCH26, ISA_AARCH32, ISA_AARCH64} :
              cpu = [main_start(name, isa, ARM_ENDIAN_LITTLE, FALSE) EXCEPT !.r[PC] = EEntry]
    /\ jstack = << >>
    /\ obs = [op |-> "start", mask |-> 0, value |-> 0]
    /\ pre = cpu
    /\ steps = 0

\* MSR CPSR and the other callers of a32_set_cpsr
PSetCpsr ==
    /\ steps < MaxPSteps
    /\ cpu.pstate.rw # PSTATE_RW_64
    /\ \E mask \in PMasks, value \in PValues :
          /\ cpu' = a32_set_cpsr(cpu, mask, value)
          /\ obs' = [op |-> "a32_set_cpsr", mask |-> mask, value |-> value]
    /\ pre' = cpu
    /\ steps' = steps + 1
    /\ UNCHANGED jstack

\* a64_set_cpsr in AArch64 state
PSetCpsr64 ==
    /\ steps < MaxPSteps
    /\ cpu.pstate.rw = PSTATE_RW_64
    /\ \E value \in PValues :
          /\ cpu' = a64_set_cpsr(cpu, value)
          /\ obs' = [op |-> "a64_set_cpsr", mask |-> -1, value |-> value]
    /\ pre' = cpu
    /\ steps' = steps + 1
    /\ UNCHANGED jstack

\* MSR SPSR
PSetSpsr ==
    /\ steps < MaxPSteps
    /\ cpu.pstate.rw # PSTATE_RW_64
    /\ \E mask \in PMasks, value \in PValues :
          /\ cpu' = a32_set_spsr(cpu, mask, value)
          /\ obs' = [op |-> "a32_set_spsr", mask |-> mask, value |-> value]
    /\ pre' = cpu
    /\ steps' = steps + 1
    /\ UNCHANGED jstack

\* the host selects one of the instruction sets the processor supports
PSetIsa ==
    /\ steps < MaxPSteps
    /\ \E isa \in {i \in ISA_AARCH26 .. ISA_AARCH64 : is_supported_isa(cpu, i)} :
          /\ cpu' = arm_set_isa(cpu, isa)
          /\ obs' = [op |-> "arm_set_isa", mask |-> 0, value |-> isa]
    /\ pre' = cpu
    /\ steps' = steps + 1
    /\ UNCHANGED jstack

\* exception return in the current state
PEret ==
    /\ steps < MaxPSteps
    /\ IF cpu.pstate.rw = PSTATE_RW_64
       THEN /\ cpu.pstate.mode \in 1 .. 3
            /\ cpu' = a64_eret(cpu)
       ELSE /\ a32_register(cpu, 14) # NONE
            /\ cpu' = a32_eret(cpu)
    /\ obs' = [op |-> "eret", mask |-> -1, value |-> 0]
    /\ pre' = cpu
    /\ steps' = steps + 1
    /\ UNCHANGED jstack

\* exception entry
PEnter ==
    /\ steps < MaxPSteps
    /\ a32_register(cpu, 14) # NONE
    /\ \E c \in {Begin(cpu)} :
          /\ ~Faulted(c)
          /\ \E h \in PHandlers :
                /\ cpu' = Handler(h, c)
                /\ obs' = [op |-> h, mask |-> 0, value |-> 0]
          /\ pre' = c
    /\ steps' = steps + 1
    /\ UNCHANGED jstack

NextP == PSetCpsr \/ PSetCpsr64 \/ PSetSpsr \/ PSetIsa \/ PEret \/ PEnter

SpecP == InitP /\ [][NextP]_vars

\* the instruction set the J and T bits of a PSR value name in 32-bit state
RequestedSet(value) ==
    IF Bits(CPSR_J) \subseteq Bits(value)
    THEN (IF Bits(CPSR_T) \subseteq Bits(value) THEN ISA_THUMBEE ELSE ISA_JAZELLE)
    ELSE (IF Bits(CPSR_T) \subseteq Bits(value) THEN ISA_THUMB32 ELSE ISA_AARCH32)

\* C14: after every operation that writes PSTATE (a32_set_cpsr, a64_set_cpsr,
\* arm_set_isa, exception entry, exception return) the instruction set that
\* (rw, J, T) names is supported by the configuration, and a32_set_cpsr
\* replaces a J/T combination naming an unsupported set by ARM.
C14_NamedSetIsSupported ==
    /\ obs.op # "start" => is_supported_isa(cpu, arm_get_current_instruction_set(cpu))
    /\ (/\ obs.op = "a32_set_cpsr"
        /\ Bits(CPSR_T + CPSR_J) \subseteq Bits(obs.mask)
        /\ RequestedSet(obs.value) # ISA_AARCH32
        /\ ~is_supported_isa(cpu, RequestedSet(obs.value))) => cpu.pstate.jt = PSTATE_JT_ARM

\* C17: a32_set_cpsr with an all-ones mask and value v, followed by
\* a32_get_cpsr, returns v & get_xpsr_mask(configuration): the bits of present
\* features read back as written, the bits of absent features read as 0.
C17_CpsrReadsBackSupportedBits ==
    (obs.op = "a32_set_cpsr" /\ obs.mask = -1) =>
        Bits(a32_get_cpsr(cpu))
            = Bits(obs.value) \cap get_xpsr_mask(cpu.config.version, cpu.config.features, cpu.supported_isas)

(***************************************************************************)
(* The program counter in 26-bit state (emu.c a32_register_set32,          *)
(* a32_fetch32, a32_ldm).                                                  *)
(***************************************************************************)
\* emu.c a32_set_pc_mode
a32_set_pc_mode(c, value) ==
    a32_set_pc(IF c.pstate.jt \in {PSTATE_JT_ARM, PSTATE_JT_THUMB}
               THEN [c EXCEPT !.pstate.jt = IF value % 2 = 1 THEN PSTATE_JT_THUMB ELSE PSTATE_JT_ARM]
               ELSE c,
               value)

\* emu.c a32_register_set32_interworking_v5 over a32_register_set32_interworking
a32_register_set32_interworking_v5(c, regnum, value) ==
    IF c.config.version >= ARMV5 /\ regnum % 16 = A32_PC_NUM /\ c.pstate.rw # PSTATE_RW_26
    THEN a32_set_pc_mode(c, value)
    ELSE a32_register_set32(c, regnum, value)

\* emu.c a32_or_a26_copy_flags over a32_set_cpsr_nzcv
a32_or_a26_copy_flags(c, value) ==
    LET vb == Bits(value)
        Val(k) == IF k \in vb THEN 1 ELSE 0
    IN  IF c.pstate.rw = PSTATE_RW_26
        THEN [c EXCEPT !.pstate.v = Val(28), !.pstate.c = Val(29), !.pstate.z = Val(30), !.pstate.n = Val(31),
                       !.pstate.i = IF c.pstate.mode # MODE_USR THEN Val(27) ELSE @,
                       !.pstate.f = IF c.pstate.mode # MODE_USR THEN Val(26) ELSE @]
        ELSE IF ~a32_spsr_mode_valid(c, c.pstate.mode) THEN c
        ELSE a32_set_cpsr(c, -1, a32_get_spsr(c))

\* the loop of a32_ldm over R0..R14: the processor and the address after it
RECURSIVE LdmLoop(_, _, _, _, _)
LdmLoop(c, list, register_number, address, user_mode) ==
    IF register_number >= 15 THEN [cpu |-> c, address |-> address]
    ELSE IF register_number \notin list THEN LdmLoop(c, list, register_number + 1, address, user_mode)
    ELSE LdmLoop(IF user_mode THEN [c EXCEPT !.r[register_number] = a32_read32(c, address)]
                 ELSE a32_register_set32_interworking_v5(c, register_number, a32_read32(c, address)),
                 list, register_number + 1, address + 4, user_mode)

\* emu.c a32_ldm
a32_ldm(c, register_list, stack_register, upward, change_before, writeback, include_cpsr) ==
    LET list == Bits(register_list)
        stacksize == 4 * Cardinality(list)
        base == a32_register_get32(c, stack_register)
        first == IF upward THEN base ELSE base - (stacksize - 4)
        final_address == IF upward THEN base + stacksize ELSE first - 4
        start == IF change_before THEN first + (IF upward THEN 4 ELSE -4) ELSE first
        address == Aligned(c, start, 4)
        user_mode == 15 \notin list /\ include_cpsr /\ ~writeback
    IN  IF Misaligned(c, start, 4) THEN arm_unaligned(c)
        ELSE IF a26_check_address(c, address) THEN a32_address_exception(c)
        ELSE LET l == LdmLoop(c, list, 0, address, user_mode)
                 word == a32_read32(l.cpu, l.address)
                 c1 == IF 15 \notin list THEN l.cpu
                       ELSE [l.cpu EXCEPT !.r[PC] = word - (word % 2),
                                          !.pstate.jt = IF FEATURE_THUMB \notin c.config.features THEN @
                                                        ELSE IF word % 2 = 1 THEN PSTATE_JT_THUMB
                                                        ELSE PSTATE_JT_ARM]
                 c2 == IF 15 \in list /\ include_cpsr THEN a32_or_a26_copy_flags(c1, word) ELSE c1
             IN  IF writeback /\ stack_register \notin list
                 THEN a32_register_set32(c2, stack_register, final_address)
                 ELSE c2

\* instructions of one run of the 26-bit model
MaxLSteps == 3
\* branch targets: inside the 26-bit space, its last word, and beyond it
LTargets == {64, 67108860, 67108864 + 8, CPSR_N + 16}
\* a return address as STM stores it in 26-bit state: PC with the flags N and
\* C and the mode SVC in the PSR bits
LWord == CPSR_N + CPSR_C + 64 + MODE_SVC
\* register lists of the LDM: {pc} and {r0, pc}
LLists == {32768, 32769}

InitL ==
    /\ \E name \in {"2", "3"}, capture \in BOOLEAN :
          cpu = [main_start(name, ISA_AARCH26, ARM_ENDIAN_LITTLE, capture) EXCEPT !.r[PC] = EEntry]
    /\ jstack = << >>
    /\ obs = [op |-> "start", fault |-> FALSE]
    /\ pre = cpu
    /\ steps = 0

\* an instruction that only advances the PC
LStep ==
    /\ steps < MaxLSteps
    /\ cpu' = Begin(cpu)
    /\ obs' = [op |-> "step", fault |-> Faulted(cpu')]
    /\ pre' = cpu'
    /\ steps' = steps + 1
    /\ UNCHANGED jstack

\* a branch, or a data-processing instruction or LDR writing R15
LBranch ==
    /\ steps < MaxLSteps
    /\ \E c \in {Begin(cpu)} :
          /\ \E value \in LTargets : cpu' = a32_register_set32(c, A32_PC_NUM, value)
          /\ pre' = c
    /\ obs' = [op |-> "branch", fault |-> FALSE]
    /\ steps' = steps + 1
    /\ UNCHANGED jstack

\* STR of a saved return address to the stack
LStr ==
    /\ steps < MaxLSteps
    /\ \E c \in {Begin(cpu)} :
          /\ \E offset \in {0, 4} : cpu' = a32_str(c, LWord, 13, offset)
          /\ pre' = c
    /\ obs' = [op |-> "str", fault |-> Faulted(cpu')]
    /\ steps' = steps + 1
    /\ UNCHANGED jstack

\* LDMIA r13, {...} with and without write-back and ^
LLdm ==
    /\ steps < MaxLSteps
    /\ \E c \in {Begin(cpu)} :
          /\ \E register_list \in LLists, writeback \in BOOLEAN, include_cpsr \in BOOLEAN :
                cpu' = a32_ldm(c, register_list, 13, TRUE, FALSE, writeback, include_cpsr)
          /\ pre' = c
    /\ obs' = [op |-> "ldm", fault |-> Faulted(cpu')]
    /\ steps' = steps + 1
    /\ UNCHANGED jstack

\* exception entry
LEnter ==
    /\ steps < MaxLSteps
    /\ \E c \in {Begin(cpu)} :
          /\ \E h \in PHandlers : cpu' = Handler(h, c)
          /\ pre' = c
    /\ obs' = [op |-> "enter", fault |-> TRUE]
    /\ steps' = steps + 1
    /\ UNCHANGED jstack

NextL == LStep \/ LBranch \/ LStr \/ LLdm \/ LEnter

SpecL == InitL /\ [][NextL]_vars

\* C15: in 26-bit state R[PC] is below 0x04000000 at the end of every step,
\* whatever the instruction did.
C15_PCWithin26Bits ==
    (obs.op # "start" /\ cpu.pstate.rw = PSTATE_RW_26) => (0 <= cpu.r[PC] /\ cpu.r[PC] < 67108864)

(***************************************************************************)
(* Alignment of the A64 program counter (emu.c a64_fetch32,                *)
(* arm_unaligned_pc, a64_eret).                                            *)
(***************************************************************************)
\* instructions of one run of the A64 model
MaxASteps == 4
\* entry points main may be given (-l=N or the ELF entry): aligned and not
AEntries == {EEntry, EEntry + 2}
\* the instruction sets the run starts in
AIsas == {ISA_AARCH64, ISA_THUMB32}
\* the instructions that trap
AHandlers == {"arm_svc", "arm_smc", "arm_data_abort"}

InitA ==
    /\ \E capture \in BOOLEAN, entry \in AEntries, isa \in AIsas :
          cpu = [main_start("8-a", isa, ARM_ENDIAN_LITTLE, capture) EXCEPT !.r[PC] = entry]
    /\ jstack = << >>
    /\ obs = [op |-> "start", fault |-> FALSE]
    /\ pre = cpu
    /\ steps = 0

\* an instruction that completes, if its fetch does
AStep ==
    /\ steps < MaxASteps
    /\ cpu' = Begin(cpu)
    /\ obs' = [op |-> "step", fault |-> Faulted(cpu')]
    /\ pre' = cpu'
    /\ steps' = steps + 1
    /\ UNCHANGED jstack

\* MSR SCR_EL3 / HCR_EL2 in A64 state
AMsr ==
    /\ steps < MaxASteps
    /\ cpu.pstate.rw = PSTATE_RW_64
    /\ \E reg \in {"scr_el3", "hcr_el2"} :
          \E c \in {Begin(cpu)} :
              /\ ~Faulted(c)
              /\ cpu' = a64_perform_msr(c, reg, EMsr[reg])
              /\ obs' = [op |-> "msr", fault |-> TRUE]
              /\ pre' = c
    /\ steps' = steps + 1
    /\ UNCHANGED jstack

\* ERET in A64 state at an exception level that has an ELR (the mode field
\* holds the number a64_exception was given, 1 to 3)
AEret ==
    /\ steps < MaxASteps
    /\ cpu.pstate.rw = PSTATE_RW_64
    /\ cpu.pstate.mode \in 1 .. 3
    /\ \E c \in {Begin(cpu)} :
          /\ ~Faulted(c)
          /\ cpu' = a64_eret(c)
          /\ obs' = [op |-> "eret", fault |-> FALSE]
          /\ pre' = c
    /\ steps' = steps + 1
    /\ UNCHANGED jstack

\* an instruction that traps
AEnter ==
    /\ steps < MaxASteps
    /\ \E h \in AHandlers :
          \E c \in {Begin(cpu)} :
              /\ ~Faulted(c)
              /\ cpu' = Handler(h, c)
              /\ obs' = [op |-> h, fault |-> TRUE]
              /\ pre' = c
    /\ steps' = steps + 1
    /\ UNCHANGED jstack

NextA == AStep \/ AMsr \/ AEret \/ AEnter

SpecA == InitA /\ [][NextA]_vars

MaxRSteps == 3
\* the modes MSR CPSR_c selects
RModes == {MODE_USR, MODE_FIQ, MODE_IRQ, MODE_SVC, MODE_ABT, MODE_UND}
\* the registers written and the words written to them
RRegs == 8 .. 14
RWords == {1, 2}

InitR ==
    /\ \E name \in DOMAIN arm_names :
          \E isa \in arm_names[name].isas \cap {ISA_AARCH26, ISA_AARCH32} :
              cpu = [main_start(name, isa, ARM_ENDIAN_LITTLE, FALSE) EXCEPT !.r[PC] = EEntry]
    /\ jstack = << >>
    /\ obs = [op |-> "start", regnum |-> 0]
    /\ pre = cpu
    /\ steps = 0

\* MSR CPSR_c, mode: a32_set_cpsr under the mode mask
RMode ==
    /\ steps < MaxRSteps
    /\ \E mode \in RModes :
          cpu' = a32_set_cpsr(cpu, CPSR_MODE_MASK, mode)
    /\ obs' = [op |-> "mode", regnum |-> 0]
    /\ pre' = cpu
    /\ steps' = steps + 1
    /\ UNCHANGED jstack

\* an instruction writes a word to R8..R14 of the current mode
RWrite ==
    /\ steps < MaxRSteps
    /\ \E regnum \in RRegs, value \in RWords :
          /\ cpu' = a32_register_set32(cpu, regnum, value)
          /\ obs' = [op |-> "write", regnum |-> regnum]
    /\ pre' = cpu
    /\ steps' = steps + 1
    /\ UNCHANGED jstack

NextR == RMode \/ RWrite

SpecR == InitR /\ [][NextR]_vars

\* registers lo..hi as mode sees them
Seen(c, mode, lo, hi) == [n \in lo .. hi |-> c.r[a32_register_mode(c, n, mode)]]

\* C18: on every version other than ARMv1 a write to one of R8..R12 in FIQ
\* mode leaves the user-mode R8..R12 unchanged, a write to one of them in user
\* mode leaves the FIQ-mode R8..R12 unchanged, and a write to R13 or R14 in one
\* of FIQ, IRQ, SVC, ABT, UND leaves R13 and R14 of every other mode unchanged.
C18_FIQAndPrivateBanks ==
    (obs.op = "write" /\ cpu.config.version # ARMV1)
        => /\ (pre.pstate.mode = MODE_FIQ /\ obs.regnum \in 8 .. 12)
                  => Seen(cpu, MODE_USR, 8, 12) = Seen(pre, MODE_USR, 8, 12)
           /\ (pre.pstate.mode = MODE_USR /\ obs.regnum \in 8 .. 12)
                  => Seen(cpu, MODE_FIQ, 8, 12) = Seen(pre, MODE_FIQ, 8, 12)
           /\ (pre.pstate.mode \in RModes \ {MODE_USR} /\ obs.regnum \in 13 .. 14)
                  => \A mode \in RModes \ {pre.pstate.mode} :
                         Seen(cpu, mode, 13, 14) = Seen(pre, mode, 13, 14)

(***************************************************************************)
(* The saved program status registers (emu.c a32_spsr_for_mode,            *)
(* a32_set_spsr, a32_get_spsr), under specification SpecP.                 *)
(***************************************************************************)
\* the modes of the processor that have an SPSR: MON comes with the security
\* extension, HYP with the virtualization extension
SpsrModes(c) ==
    {MODE_FIQ, MODE_IRQ, MODE_SVC, MODE_ABT, MODE_UND}
    \cup (IF FEATURE_SECURITY \in c.config.features THEN {MODE_MON} ELSE {})
    \cup (IF FEATURE_VIRTUALIZATION \in c.config.features THEN {MODE_HYP} ELSE {})

\* the value MRS SPSR reads in the given mode
SpsrIn(c, mode) == a32_get_spsr([c EXCEPT !.pstate.mode = mode])

\* C19: a write of the SPSR in one of FIQ, IRQ, SVC, ABT, UND, MON, HYP leaves
\* the value read as SPSR in every other of these modes unchanged; in USR and
\* SYS the write changes nothing and the SPSR reads as 0.
C19_SPSRPerMode ==
    obs.op = "a32_set_spsr"
        => /\ pre.pstate.mode \in SpsrModes(pre)
                  => \A mode \in SpsrModes(pre) \ {pre.pstate.mode} : SpsrIn(cpu, mode) = SpsrIn(pre, mode)
           /\ pre.pstate.mode \in {MODE_USR, MODE_SYS}
                  => (cpu = pre /\ a32_get_spsr(cpu) = 0)

(***************************************************************************)
(* The range a load-exclusive records (emu.c a32_ldrexb, a32_ldrexh,       *)
(* a32_ldrex, a32_ldrexd), under specification SpecX.                      *)
(***************************************************************************)
\* C20: every load-exclusive that completes, LDREXB, LDREXH, LDREX or LDREXD,
\* leaves the monitor range at exactly the bytes of its access,
\* [addr, addr + size - 1] with size 1, 2, 4 or 8.
C20_LoadExclusiveMarksItsBytes ==
    (obs.op \in {"ldrex", "ldrexd"} /\ ~obs.fault)
        => (cpu.exclusive_start = obs.address /\ cpu.exclusive_end = obs.address + obs.size - 1)

(***************************************************************************)
(* Store multiple and load multiple (emu.c a32_stm, a32_ldm).              *)
(***************************************************************************)
\* emu.c a32_register_get32_lhs
a32_register_get32_lhs(c, regnum) ==
    IF c.pstate.rw = PSTATE_RW_26 /\ regnum % 16 = A32_PC_NUM THEN a26_get_pc(c) + 4
    ELSE a32_register_get32(c, regnum)

\* emu.c a32_get_stored_pc_displacement
a32_get_stored_pc_displacement(c) == IF c.config.version >= ARMV7 THEN 0 ELSE 4

\* the store loop of a32_stm over registers register_number .. 15
RECURSIVE StmLoop(_, _, _, _, _)
StmLoop(c, list, register_number, address, user_mode) ==
    IF register_number >= 16 THEN c
    ELSE IF register_number \notin list THEN StmLoop(c, list, register_number + 1, address, user_mode)
    ELSE StmLoop(a32_write32(c, address,
                             (IF user_mode THEN c.r[register_number]
                              ELSE a32_register_get32_lhs(c, register_number))
                             + (IF register_number = A32_PC_NUM THEN a32_get_stored_pc_displacement(c) ELSE 0)),
                 list, register_number + 1, address + 4, user_mode)

\* a32_stm had it written the base register back before the stores in every case
a32_stm_writes_back_first(c, register_list, stack_register, upward, change_before, writeback, user_mode) ==
    LET list == Bits(register_list)
        stacksize == 4 * Cardinality(list)
        base == a32_register_get32(c, stack_register)
        first == IF upward THEN base ELSE base - (stacksize - 4)
        final_address == IF upward THEN base + stacksize ELSE first - 4
        start == IF change_before THEN first + (IF upward THEN 4 ELSE -4) ELSE first
        address == Aligned(c, start, 4)
    IN  IF Misaligned(c, start, 4) THEN arm_unaligned(c)
        ELSE IF a26_check_address(c, address) THEN a32_address_exception(c)
        ELSE StmLoop(IF writeback THEN a32_register_set32(c, stack_register, final_address) ELSE c,
                     list, 0, address, user_mode)

\* emu.c a32_stm
a32_stm(c, register_list, stack_register, upward, change_before, writeback, user_mode) ==
    LET list == Bits(register_list)
        stacksize == 4 * Cardinality(list)
        base == a32_register_get32(c, stack_register)
        first == IF upward THEN base ELSE base - (stacksize - 4)
        final_address == IF upward THEN base + stacksize ELSE first - 4
        start == IF change_before THEN first + (IF upward THEN 4 ELSE -4) ELSE first
        address == Aligned(c, start, 4)
        stack_register_is_lowest == list \cap (0 .. stack_register) = {stack_register}
    IN  IF Misaligned(c, start, 4) THEN arm_unaligned(c)
        ELSE IF a26_check_address(c, address)
        THEN a32_address_exception(IF ~stack_register_is_lowest /\ writeback
                                   THEN a32_register_set32(c, stack_register, final_address) ELSE c)
        ELSE IF ~writeback THEN StmLoop(c, list, 0, address, user_mode)
        ELSE IF stack_register_is_lowest
        THEN a32_register_set32(StmLoop(c, list, 0, address, user_mode), stack_register, final_address)
        ELSE StmLoop(a32_register_set32(c, stack_register, final_address), list, 0, address, user_mode)

\* instructions of one run of the store-multiple model
MaxMSteps == 3
\* the base addresses MOV leaves in R1: word-aligned and not
MBases == {16, 17, 18}
\* the register lists of STM: {R0, R1} and {R1, R2}
MLists == {3, 6}

InitM ==
    /\ \E name \in {"4t", "7-a"}, capture \in BOOLEAN :
          cpu = [main_start(name, ISA_AARCH32, ARM_ENDIAN_LITTLE, capture) EXCEPT !.r[PC] = EEntry]
    /\ jstack = << >>
    /\ obs = [op |-> "start", fault |-> FALSE, list |-> {}, upward |-> FALSE, before |-> FALSE,
              writeback |-> FALSE, word |-> 0]
    /\ pre = cpu
    /\ steps = 0

\* MOV R1, #base
MMov ==
    /\ steps < MaxMSteps
    /\ \E c \in {Begin(cpu)} :
          /\ \E value \in MBases : cpu' = a32_register_set32(c, 1, value)
          /\ pre' = c
    /\ obs' = [obs EXCEPT !.op = "mov", !.fault = FALSE]
    /\ steps' = steps + 1
    /\ UNCHANGED jstack

\* STM R1, {...} in its four addressing modes, with and without write-back and
\* ^, once R1 points into the modelled memory
MStm ==
    /\ steps < MaxMSteps
    /\ cpu.r[1] >= 16
    /\ \E c \in {Begin(cpu)} :
          /\ \E register_list \in MLists, upward \in BOOLEAN, change_before \in BOOLEAN,
                writeback \in BOOLEAN, user_mode \in BOOLEAN :
                /\ cpu' = a32_stm(c, register_list, 1, upward, change_before, writeback, user_mode)
                /\ obs' = [op |-> "stm", fault |-> Faulted(cpu'), list |-> Bits(register_list),
                           upward |-> upward, before |-> change_before, writeback |-> writeback,
                           word |-> 0]
          /\ pre' = c
    /\ steps' = steps + 1
    /\ UNCHANGED jstack

\* LDMIA R1, {PC} with and without write-back; obs.word is the word at the
\* address the instruction loads R15 from
MLdm ==
    /\ steps < MaxMSteps
    /\ cpu.r[1] >= 16
    /\ \E c \in {Begin(cpu)} :
          /\ \E writeback \in BOOLEAN :
                /\ cpu' = a32_ldm(c, 32768, 1, TRUE, FALSE, writeback, FALSE)
                /\ obs' = [op |-> "ldm", fault |-> Faulted(cpu'), list |-> {15},
                           upward |-> TRUE, before |-> FALSE, writeback |-> writeback,
                           word |-> a32_read32(c, Aligned(c, a32_register_get32(c, 1), 4))]
          /\ pre' = c
    /\ steps' = steps + 1
    /\ UNCHANGED jstack

NextM == MMov \/ MStm \/ MLdm

SpecM == InitM /\ [][NextM]_vars

\* the address written back by the STM that obs describes, and the address of
\* the word it stored for R1 (the lowest address of the block plus four bytes
\* for each lower register of the list)
MFinal ==
    a32_register_get32(pre, 1) + (IF obs.upward THEN 4 ELSE -4) * Cardinality(obs.list)
MSlot ==
    LET n == Cardinality(obs.list)
        base == a32_register_get32(pre, 1)
        low == IF obs.upward THEN (IF obs.before THEN base + 4 ELSE base)
               ELSE (IF obs.before THEN base - 4 * n ELSE base - 4 * n + 4)
    IN  Aligned(pre, low, 4) + 4 * Cardinality({k \in obs.list : k < 1})

\* C21: an STM with write-back whose base register is in the list stores the
\* value the base register had before the instruction if and only if the base
\* register is the lowest register of the list, and the written-back value
\* otherwise; the base register holds the written-back address afterwards.
C21_StmStoresBase ==
    (obs.op = "stm" /\ ~obs.fault /\ obs.writeback /\ 1 \in obs.list)
        => /\ a32_read32(cpu, MSlot) = (IF \A k \in obs.list : k >= 1
                                        THEN a32_register_get32(pre, 1) ELSE MFinal)
           /\ a32_register_get32(cpu, 1) = MFinal

\* an STM with write-back has stored a word for its base register, lowest of
\* the list or not
C21_Witness ==
    /\ obs.op = "stm" /\ ~obs.fault /\ obs.writeback /\ 1 \in obs.list
    /\ a32_read32(cpu, MSlot) # MFinal
    /\ a32_register_get32(pre, 1) = 16

\* C22: an LDM that loads R15 selects ARM or Thumb state by bit 0 of the loaded
\* word on ARMv5 and later and leaves the instruction-set state alone on
\* earlier versions; R[PC] ends aligned for the resulting instruction set.
C22_LdmPCInterworks ==
    (obs.op = "ldm" /\ ~obs.fault)
        => /\ cpu.pstate.jt = (IF cpu.config.version < ARMV5 THEN pre.pstate.jt
                               ELSE IF obs.word % 2 = 1 THEN PSTATE_JT_THUMB ELSE PSTATE_JT_ARM)
           /\ cpu.r[PC] % (IF cpu.pstate.jt = PSTATE_JT_ARM THEN 4 ELSE 2) = 0

(***************************************************************************)
(* The condition codes over every flag state (emu.c a32_check_condition).  *)
(***************************************************************************)
\* flag writes and condition checks of one run
MaxCSteps == 3
\* the words MSR CPSR_f writes: every combination of N, Z, C and V
CFlagWords ==
    {n + z + c + v : n \in {0, CPSR_N}, z \in {0, CPSR_Z}, c \in {0, CPSR_C}, v \in {0, CPSR_V}}

InitC ==
    /\ \E name \in {"2", "7-a"} :
          \E isa \in arm_names[name].isas \cap {ISA_AARCH26, ISA_AARCH32} :
              cpu = [main_start(name, isa, ARM_ENDIAN_LITTLE, FALSE) EXCEPT !.r[PC] = EEntry]
    /\ jstack = << >>
    /\ obs = [op |-> "start", code |-> 14, result |-> TRUE]
    /\ pre = cpu
    /\ steps = 0

\* MSR CPSR_f: a32_set_cpsr under the mask of the four flags
CSetFlags ==
    /\ steps < MaxCSteps
    /\ \E value \in CFlagWords :
          cpu' = a32_set_cpsr(cpu, CPSR_N + CPSR_Z + CPSR_C + CPSR_V, value)
    /\ obs' = [op |-> "flags", code |-> 14, result |-> TRUE]
    /\ pre' = cpu
    /\ steps' = steps + 1
    /\ UNCHANGED jstack

\* the condition field of an instruction is evaluated
CCheck ==
    /\ steps < MaxCSteps
    /\ \E code \in 0 .. 15 :
          obs' = [op |-> "check", code |-> code, result |-> a32_check_condition(cpu, code)]
    /\ pre' = cpu
    /\ steps' = steps + 1
    /\ UNCHANGED << cpu, jstack >>

NextC == CSetFlags \/ CCheck

SpecC == InitC /\ [][NextC]_vars

\* C23: for each of the condition codes EQ .. AL, a32_check_condition returns
\* the architectural predicate over N, Z, C and V (EQ iff Z, ..., GT iff not Z
\* and N = V, LE iff Z or N # V, AL always), so the two codes of a pair give
\* opposite answers.
C23_ArchitecturalPredicate ==
    (obs.op = "check" /\ obs.code # 15) => (obs.result = ConditionPassed(obs.code, cpu.pstate))

(***************************************************************************)
(* Halfword loads under the three byte orders (emu.c memory_read_bytes16,  *)
(* memory_read16 behind a32_read16).                                       *)
(***************************************************************************)
\* loads and stores of one run
MaxHSteps == 3
\* the aligned words the image is loaded at, and the bytes of the image
HWords == {16, 20}
HImage == << 17, 34, 51, 68 >>
\* the byte STRB stores
HByte == 238
\* the bytes of memory the model follows
HAddrs == 16 .. 23

InitH ==
    /\ \E name \in {"4t", "6z"}, endian \in {ARM_ENDIAN_LITTLE, ARM_ENDIAN_BIG, ARM_ENDIAN_SWAPPED} :
          cpu = [main_start(name, ISA_AARCH32, endian, TRUE) EXCEPT !.r[PC] = EEntry]
    /\ jstack = << >>
    /\ obs = [op |-> "start", address |-> 0, value |-> 0, bytes |-> [a \in HAddrs |-> 0]]
    /\ pre = cpu
    /\ steps = 0

\* main copies the four bytes of the image to increasing addresses, byte by
\* byte through the data byte order (arm_memory_write8)
HLoad ==
    /\ steps < MaxHSteps
    /\ \E word \in HWords :
          /\ cpu' = a32_write8(a32_write8(a32_write8(a32_write8(cpu, word, HImage[1]),
                                                     word + 1, HImage[2]),
                                          word + 2, HImage[3]),
                               word + 3, HImage[4])
          /\ obs' = [op |-> "load", address |-> word, value |-> 0,
                     bytes |-> [a \in HAddrs |-> IF a \in word .. word + 3 THEN HImage[a - word + 1]
                                                 ELSE obs.bytes[a]]]
    /\ pre' = cpu
    /\ steps' = steps + 1
    /\ UNCHANGED jstack

\* STRB
HStrb ==
    /\ steps < MaxHSteps
    /\ \E address \in HAddrs :
          /\ cpu' = a32_write8(cpu, address, HByte)
          /\ obs' = [op |-> "strb", address |-> address, value |-> 0,
                     bytes |-> [obs.bytes EXCEPT ![address] = HByte]]
    /\ pre' = cpu
    /\ steps' = steps + 1
    /\ UNCHANGED jstack

\* LDRH at a halfword-aligned address
HLdrh ==
    /\ steps < MaxHSteps
    /\ \E address \in {a \in HAddrs : a % 2 = 0} :
          obs' = [obs EXCEPT !.op = "ldrh", !.address = address, !.value = a32_read16(cpu, address)]
    /\ pre' = cpu
    /\ steps' = steps + 1
    /\ UNCHANGED << cpu, jstack >>

NextH == HLoad \/ HStrb \/ HLdrh

SpecH == InitH /\ [][NextH]_vars

\* C24: in BE-32 mode a halfword load at the first or the third byte of an
\* aligned word returns the byte stored at that address in its high half and
\* the byte stored at the next address in its low half: 0x1122 at A and
\* 0x3344 at A + 2 for the bytes 11 22 33 44 at A .. A + 3.
C24_BE32Halfword ==
    (obs.op = "ldrh" /\ a32_get_data_endianness(cpu) = ARM_ENDIAN_SWAPPED)
        => obs.value = 256 * obs.bytes[obs.address] + obs.bytes[obs.address + 1]

\* the two loads of the claim on the image 11 22 33 44: 0x3344 at A + 2
C24_Witness ==
    /\ obs.op = "ldrh" /\ a32_get_data_endianness(cpu) = ARM_ENDIAN_SWAPPED
    /\ obs.address = 18 /\ obs.value = 13124
    /\ \A i \in 1 .. 4 : obs.bytes[15 + i] = HImage[i]

(***************************************************************************)
(* Jazelle exceptions (jazelle.c j32_break).                               *)
(***************************************************************************)
J32_EXCEPTION_NULLPTR == 256
J32_EXCEPTION_OUT_OF_BOUNDS == 257
J32_EXCEPTION_JAZELLE_DISABLED == 258
J32_EXCEPTION_JAZELLE_INVALID == 259
J32_EXCEPTION_PREFETCH_ABORT == 260
ARM_EMU_JAZELLE_UNDEFINED == 17
ARM_EMU_JAZELLE_NULLPTR == 18
ARM_EMU_JAZELLE_OUT_OF_BOUNDS == 19
ARM_EMU_JAZELLE_DISABLED == 20
ARM_EMU_JAZELLE_INVALID == 21
ARM_EMU_JAZELLE_PREFETCH_ABORT == 22

\* j32_break from its second statement on, the fast stack spilled
j32_break_after_spill(c, index) ==
    LET c1 == [c EXCEPT !.r[PC] = c.old_pc]
        sht == a32_register_get32(c1, J32_SHT)
    IN  IF ~c.capture_breaks
        THEN [a32_register_set32(c1, A32_LR, c1.r[PC])
                 EXCEPT !.pstate.jt = PSTATE_JT_ARM,
                        !.r[PC] = (sht - (sht % 4096)) + 4 * index,
                        !.entry = [fn |-> "j32_break", address |-> index, mode |-> 0]]
        ELSE [c1 EXCEPT !.result = CASE index = J32_EXCEPTION_NULLPTR -> ARM_EMU_JAZELLE_NULLPTR
                                     [] index = J32_EXCEPTION_OUT_OF_BOUNDS -> ARM_EMU_JAZELLE_OUT_OF_BOUNDS
                                     [] index = J32_EXCEPTION_JAZELLE_DISABLED -> ARM_EMU_JAZELLE_DISABLED
                                     [] index = J32_EXCEPTION_JAZELLE_INVALID -> ARM_EMU_JAZELLE_INVALID
                                     [] index = J32_EXCEPTION_PREFETCH_ABORT -> ARM_EMU_JAZELLE_PREFETCH_ABORT
                                     [] OTHER -> ARM_EMU_JAZELLE_UNDEFINED,
                        !.entry = [fn |-> "j32_break", address |-> index, mode |-> 0]]

\* j32_break had it kept the fast stack in the registers
j32_break_without_spill(c, index) ==
    j32_break_after_spill(c, index)

\* jazelle.c j32_push_dword: value is [hi, lo], (uint32_t)value is lo and
\* value >> 32 is hi
j32_push_dword(c, value) == j32_push_word(j32_push_word(c, value.lo), value.hi)

\* jazelle.c j32_pop_dword
j32_pop_dword(c) ==
    LET first == j32_pop_word(c)
        second == j32_pop_word(first.cpu)
    IN  [cpu |-> second.cpu, value |-> [hi |-> first.value, lo |-> second.value]]

\* jazelle.c j32_break
j32_break(c, index) ==
    j32_break_after_spill(j32_spill_fast_stack(c), index)

\* bytecodes of one run of the Jazelle exception model
MaxBSteps == 4
\* the handler table register as the ARM code left it: the table at 0x1000,
\* with bit 11 set below the table address
BTable == 4096 + 2048
\* the exceptions raised: the five named ones and an unimplemented bytecode
BIndexes == {J32_EXCEPTION_NULLPTR, J32_EXCEPTION_OUT_OF_BOUNDS, J32_EXCEPTION_JAZELLE_DISABLED,
             J32_EXCEPTION_JAZELLE_INVALID, J32_EXCEPTION_PREFETCH_ABORT, 186}
\* the 64-bit values pushed, as their high and low words
BDwords == {[hi |-> 1, lo |-> 2], [hi |-> 16909060, lo |-> 7]}
\* no 64-bit value
BNone == [hi |-> 0, lo |-> 0]

InitB ==
    /\ \E capture \in BOOLEAN :
          cpu = [main_start("5tej", ISA_JAZELLE, ARM_ENDIAN_LITTLE, capture)
                    EXCEPT !.r[J32_TOS] = JStackBase, !.r[J32_SHT] = BTable, !.r[PC] = EEntry]
    /\ jstack = << >>
    /\ obs = [op |-> "start", index |-> 0, value |-> BNone, prev |-> BNone]
    /\ pre = cpu
    /\ steps = 0

\* a bytecode that pushes a word
BPush ==
    /\ steps < MaxBSteps
    /\ cpu.pstate.jt = PSTATE_JT_JAZELLE
    /\ \E c \in {Begin(cpu)} :
          /\ \E value \in JWords :
                /\ cpu' = j32_push_word(c, value)
                /\ jstack' = Append(jstack, value)
          /\ pre' = c
    /\ obs' = [op |-> "push", index |-> 0, value |-> BNone, prev |-> BNone]
    /\ steps' = steps + 1

\* a bytecode that pushes a 64-bit value
BPushDword ==
    /\ steps < MaxBSteps
    /\ cpu.pstate.jt = PSTATE_JT_JAZELLE
    /\ Len(jstack) + 2 <= MaxJDepth
    /\ \E c \in {Begin(cpu)} :
          /\ \E value \in BDwords :
                /\ cpu' = j32_push_dword(c, value)
                /\ jstack' = jstack \o << value.lo, value.hi >>
                /\ obs' = [op |-> "push_dword", index |-> 0, value |-> value, prev |-> BNone]
          /\ pre' = c
    /\ steps' = steps + 1

\* a bytecode that pops a 64-bit value
BPopDword ==
    /\ steps < MaxBSteps
    /\ cpu.pstate.jt = PSTATE_JT_JAZELLE
    /\ Len(jstack) >= 2
    /\ \E c \in {Begin(cpu)} :
          /\ \E popped \in {j32_pop_dword(c)} :
                /\ cpu' = popped.cpu
                /\ obs' = [op |-> "pop_dword", index |-> 0, value |-> popped.value,
                           prev |-> IF obs.op = "push_dword" THEN obs.value ELSE BNone]
          /\ pre' = c
    /\ jstack' = SubSeq(jstack, 1, Len(jstack) - 2)
    /\ steps' = steps + 1

\* a bytecode that raises exception index
BBreak ==
    /\ steps < MaxBSteps
    /\ cpu.pstate.jt = PSTATE_JT_JAZELLE
    /\ \E c \in {Begin(cpu)} :
          /\ \E index \in BIndexes :
                /\ cpu' = j32_break(c, index)
                /\ obs' = [op |-> "break", index |-> index, value |-> BNone, prev |-> BNone]
          /\ pre' = c
    /\ steps' = steps + 1
    /\ UNCHANGED jstack

\* the handler in ARM state runs an instruction
BStep ==
    /\ steps < MaxBSteps
    /\ cpu.pstate.jt # PSTATE_JT_JAZELLE
    /\ cpu' = Begin(cpu)
    /\ obs' = [op |-> "step", index |-> 0, value |-> BNone, prev |-> BNone]
    /\ pre' = cpu'
    /\ steps' = steps + 1
    /\ UNCHANGED jstack

NextB == BPush \/ BPushDword \/ BPopDword \/ BBreak \/ BStep

SpecB == InitB /\ [][NextB]_vars

\* the operand stack lies in memory from JStackBase up, none of it in registers
BSpilled ==
    /\ j32_get_fast_stack_size(cpu) = 0
    /\ a32_register_get32(cpu, J32_TOS) = JStackBase + 4 * Len(jstack)
    /\ \A k \in 1 .. Len(jstack) : a32_read32(cpu, JStackBase + 4 * (k - 1)) = jstack[k]

\* the result code of exception index
BResult(index) ==
    CASE index = J32_EXCEPTION_NULLPTR -> ARM_EMU_JAZELLE_NULLPTR
      [] index = J32_EXCEPTION_OUT_OF_BOUNDS -> ARM_EMU_JAZELLE_OUT_OF_BOUNDS
      [] index = J32_EXCEPTION_JAZELLE_DISABLED -> ARM_EMU_JAZELLE_DISABLED
      [] index = J32_EXCEPTION_JAZELLE_INVALID -> ARM_EMU_JAZELLE_INVALID
      [] index = J32_EXCEPTION_PREFETCH_ABORT -> ARM_EMU_JAZELLE_PREFETCH_ABORT
      [] OTHER -> ARM_EMU_JAZELLE_UNDEFINED

\* C25: j32_break(i) spills the whole fast stack and takes R[PC] back to the
\* bytecode; with capture_breaks clear LR is the address of the bytecode, the
\* state is ARM and PC = (SHT & ~0xFFF) + (i << 2); with capture_breaks set
\* the instruction-set state is unchanged and the result is the code of i.
C25_JazelleBreak ==
    obs.op = "break"
        => /\ BSpilled
           /\ IF ~cpu.capture_breaks
              THEN /\ a32_register_get32(cpu, A32_LR) = pre.old_pc
                   /\ cpu.pstate.jt = PSTATE_JT_ARM
                   /\ cpu.r[PC] = 4096 * (BTable \div 4096) + 4 * obs.index
              ELSE /\ cpu.r[PC] = pre.old_pc
                   /\ cpu.pstate.jt = pre.pstate.jt
                   /\ cpu.result = BResult(obs.index)

\* an exception raised with words in the fast stack, delivered to the handler
\* table
C25_Witness ==
    /\ obs.op = "break" /\ obs.index = J32_EXCEPTION_OUT_OF_BOUNDS
    /\ ~cpu.capture_breaks
    /\ j32_get_fast_stack_size(pre) = 2
    /\ cpu.r[PC] = 4096 + 1028


\* C27: j32_push_dword leaves the high half of the value in the first of its
\* two slots (the lower address once spilled) and the low half in the second,
\* and j32_pop_dword right after j32_push_dword(v) returns v.
C27_DwordHighFirst ==
    /\ obs.op = "push_dword"
          => \E s \in {j32_spill_fast_stack(cpu)} :
                /\ a32_read32(s, a32_register_get32(s, J32_TOS) - 8) = obs.value.hi
                /\ a32_read32(s, a32_register_get32(s, J32_TOS) - 4) = obs.value.lo
    /\ obs.op = "pop_dword" /\ obs.prev # BNone => obs.value = obs.prev

(***************************************************************************)
(* Jazelle arrays (jazelle.c j32_get_array_length and the accessors over   *)
(* it).  A function that may leave through j32_break yields the exception  *)
(* in trap (0 for none) next to its value.                                 *)
(***************************************************************************)
JOSCR_FLAT_ARRAY == 536870912
JAOLR_ELEMENT_OFF_SHIFT == 8 - 2
JAOLR_LENGTH_OFF_SHIFT == 12 - 2
JAOLR_LENGTH_SUB == 65536
JAOLR_LENSHIFT_SHIFT == 17

\* jazelle.c j32_get_array_length: the address the length is read from
j32_length_address(c, array) ==
    LET length_offset == ((c.jaolr \div 4096) % 16) * (4096 \div (2 ^ JAOLR_LENGTH_OFF_SHIFT))
    IN  IF (c.jaolr \div JAOLR_LENGTH_SUB) % 2 = 1 THEN array - length_offset ELSE array + length_offset

\* the same had the bound been the length shifted right by lenshift
j32_get_array_length_shifted(c, array) ==
    IF array = 0
    THEN [trap |-> J32_EXCEPTION_NULLPTR, value |-> 0]
    ELSE [trap |-> 0,
          value |-> a32_read32(c, j32_length_address(c, array))
                        \div (2 ^ ((c.jaolr \div (2 ^ JAOLR_LENSHIFT_SHIFT)) % 8))]

\* jazelle.c j32_get_array_length
j32_get_array_length(c, array) ==
    IF array = 0
    THEN [trap |-> J32_EXCEPTION_NULLPTR, value |-> 0]
    ELSE [trap |-> 0, value |-> a32_read32(c, j32_length_address(c, array))]

\* jazelle.c j32_get_array_element_start_address
j32_get_array_element_start_address(c, array) ==
    LET element_offset == ((c.jaolr \div 256) % 16) * (256 \div (2 ^ JAOLR_ELEMENT_OFF_SHIFT)) + array
    IN  IF (c.joscr \div JOSCR_FLAT_ARRAY) % 2 = 0 THEN a32_read32(c, element_offset) ELSE element_offset

\* jazelle.c j32_get_array_element_address
j32_get_array_element_address(c, array, index) ==
    LET length == j32_get_array_length(c, array)
        shift_value == (c.jaolr \div (2 ^ JAOLR_LENSHIFT_SHIFT)) % 8
    IN  IF length.trap # 0 THEN length
        ELSE IF index >= length.value THEN [trap |-> J32_EXCEPTION_OUT_OF_BOUNDS, value |-> 0]
        ELSE [trap |-> 0, value |-> j32_get_array_element_start_address(c, array) + index * (2 ^ shift_value)]

\* jazelle.c j32_get_array_reference
j32_get_array_reference(c, array, index) ==
    LET address == j32_get_array_element_address(c, array, index)
    IN  IF address.trap # 0 \/ address.value = 0 THEN address
        ELSE [trap |-> 0, value |-> a32_read32(c, address.value)]

(***************************************************************************)
(* Specification SpecY: reference loads from an array laid out as main    *)
(* configures it, in either run mode.                                      *)
(***************************************************************************)
\* array accesses of one run
MaxYSteps == 2
\* the largest index tried
MaxYIndex == 4

\* main.c 1085-1111: the array layout of the run mode, bare or hosted
main_array_layout(c, bare) ==
    IF bare
    THEN c @@ [joscr |-> 0, jaolr |-> 9 * (2 ^ JAOLR_ELEMENT_OFF_SHIFT) + 3 * (2 ^ JAOLR_LENSHIFT_SHIFT)]
    ELSE c @@ [joscr |-> JOSCR_FLAT_ARRAY,
               jaolr |-> JAOLR_LENGTH_SUB + 4 * (2 ^ JAOLR_LENGTH_OFF_SHIFT) + 2 * (2 ^ JAOLR_LENSHIFT_SHIFT)]

\* the array reference of the image
YArray(c) == IF c.capture_breaks THEN 24 ELSE 16
\* the lengths the image stores
YLengths(c) == IF c.capture_breaks THEN {0, 2, 4} ELSE {0, 1, 2}

\* the image: hosted, the length word and four elements behind it; bare, the
\* length word, the pointer to the elements and two elements
YImage(c, length) ==
    IF c.capture_breaks
    THEN a32_write32(a32_write32(a32_write32(a32_write32(a32_write32(c, 20, length),
             24, 101), 28, 102), 32, 103), 36, 104)
    ELSE a32_write32(a32_write32(a32_write32(a32_write32(c, 16, length), 24, 32), 32, 201), 40, 202)

InitY ==
    /\ \E bare \in BOOLEAN :
          \E c \in {main_array_layout([main_start("5tej", ISA_JAZELLE, ARM_ENDIAN_LITTLE, ~bare)
                                          EXCEPT !.r[J32_SHT] = 4096, !.r[PC] = EEntry], bare)} :
             \E length \in YLengths(c) : cpu = YImage(c, length)
    /\ jstack = << >>
    /\ obs = [op |-> "start", array |-> 0, index |-> 0, trap |-> 0, value |-> 0]
    /\ pre = cpu
    /\ steps = 0

\* a bytecode that loads a reference from an array
YLoad ==
    /\ steps < MaxYSteps
    /\ cpu.pstate.jt = PSTATE_JT_JAZELLE
    /\ \E c \in {Begin(cpu)} :
          /\ \E array \in {0, YArray(c)}, index \in 0 .. MaxYIndex :
                \E got \in {j32_get_array_reference(c, array, index)} :
                   /\ cpu' = IF got.trap # 0 THEN j32_break(c, got.trap) ELSE c
                   /\ obs' = [op |-> "load", array |-> array, index |-> index,
                              trap |-> got.trap, value |-> got.value]
          /\ pre' = c
    /\ steps' = steps + 1
    /\ UNCHANGED jstack

\* a bytecode that stores a new length word in the array
YStore ==
    /\ steps < MaxYSteps
    /\ cpu.pstate.jt = PSTATE_JT_JAZELLE
    /\ \E c \in {Begin(cpu)} :
          /\ \E length \in YLengths(c) :
                cpu' = a32_write32(c, j32_length_address(c, YArray(c)), length)
          /\ pre' = c
    /\ obs' = [op |-> "store", array |-> 0, index |-> 0, trap |-> 0, value |-> 0]
    /\ steps' = steps + 1
    /\ UNCHANGED jstack

\* the handler in ARM state runs an instruction
YStep ==
    /\ steps < MaxYSteps
    /\ cpu.pstate.jt # PSTATE_JT_JAZELLE
    /\ cpu' = Begin(cpu)
    /\ obs' = [op |-> "step", array |-> 0, index |-> 0, trap |-> 0, value |-> 0]
    /\ pre' = cpu'
    /\ steps' = steps + 1
    /\ UNCHANGED jstack

NextY == YLoad \/ YStore \/ YStep

SpecY == InitY /\ [][NextY]_vars

\* C26: an array access traps with the null-pointer exception when the
\* reference is 0, with the out-of-bounds exception exactly when
\* index >= (stored length >> JAOLR.lenshift), and otherwise reads the
\* element without a trap.
C26_ArrayBounds ==
    obs.op = "load"
        => IF obs.array = 0 THEN obs.trap = J32_EXCEPTION_NULLPTR
           ELSE /\ obs.trap \in {0, J32_EXCEPTION_OUT_OF_BOUNDS}
                /\ obs.trap = J32_EXCEPTION_OUT_OF_BOUNDS
                     <=> obs.index >= j32_get_array_length_shifted(pre, obs.array).value


(***************************************************************************)
(* BXJ (jazelle.c a32_bxj).                                                *)
(***************************************************************************)
\* jazelle.c a32_bxj: the test that selects the fallback is the constant false
a32_bxj(c, no_jazelle_address) ==
    IF FALSE
    THEN a32_set_pc_mode(c, no_jazelle_address)
    ELSE LET c1 == [c EXCEPT !.pstate.jt = PSTATE_JT_JAZELLE, !.r[PC] = a32_register_get32(c, A32_LR)]
             sht == a32_register_get32(c1, J32_SHT)
         IN  a32_register_set32(c1, J32_SHT, sht - ((sht \div 64) % 16) * 64)

(***************************************************************************)
(* Specification SpecV: BXJ on processors configured with each Jazelle     *)
(* implementation level.                                                   *)
(***************************************************************************)
\* instructions of one run
MaxVSteps == 3
\* the levels the command line selects (main.c 460-462 over the default)
VLevels == {ARM_JAVA_DEFAULT, ARM_JAVA_NONE, ARM_JAVA_TRIVIAL, ARM_JAVA_JAZELLE}
\* the addresses held by the registers of BXJ
VTargets == {EEntry, EEntry + 8}

InitV ==
    /\ \E name \in {"4t", "5tej"}, java \in VLevels :
          cpu = [arm_set_isa(arm_emu_init([version |-> arm_names[name].version,
                                           features |-> arm_names[name].features,
                                           thumb_implementation |-> ARM_NO_THUMB,
                                           jazelle_implementation |-> java],
                                          arm_names[name].isas), ISA_AARCH32)
                    EXCEPT !.r[PC] = EEntry]
    /\ jstack = << >>
    /\ obs = [op |-> "start", address |-> 0]
    /\ pre = cpu
    /\ steps = 0

\* MOV Rd, #value for the fallback register R0 and for LR
VMov ==
    /\ steps < MaxVSteps
    /\ cpu.pstate.jt = PSTATE_JT_ARM
    /\ \E c \in {Begin(cpu)} :
          /\ \E rd \in {0, A32_LR}, value \in VTargets : cpu' = a32_register_set32(c, rd, value)
          /\ pre' = c
    /\ obs' = [op |-> "mov", address |-> 0]
    /\ steps' = steps + 1
    /\ UNCHANGED jstack

\* BXJ R0 where the instruction exists
VBxj ==
    /\ steps < MaxVSteps
    /\ cpu.pstate.jt = PSTATE_JT_ARM
    /\ FEATURE_JAZELLE \in cpu.config.features
    /\ \E c \in {Begin(cpu)} :
          /\ cpu' = a32_bxj(c, a32_register_get32(c, 0))
          /\ obs' = [op |-> "bxj", address |-> a32_register_get32(c, 0)]
          /\ pre' = c
    /\ steps' = steps + 1
    /\ UNCHANGED jstack

\* a bytecode that changes nothing
VNop ==
    /\ steps < MaxVSteps
    /\ cpu.pstate.jt = PSTATE_JT_JAZELLE
    /\ cpu' = Begin(cpu)
    /\ obs' = [op |-> "nop", address |-> 0]
    /\ pre' = cpu'
    /\ steps' = steps + 1
    /\ UNCHANGED jstack

NextV == VMov \/ VBxj \/ VNop

SpecV == InitV /\ [][NextV]_vars

\* C28: BXJ enters Jazelle state only when the implementation level is
\* JAZELLE or higher; at level TRIVIAL execution continues in ARM or Thumb
\* state at the fallback address of the instruction.
C28_BxjTrivialFallsBack ==
    obs.op = "bxj"
        => IF pre.config.jazelle_implementation >= ARM_JAVA_JAZELLE
           THEN cpu.pstate.jt = PSTATE_JT_JAZELLE
           ELSE /\ cpu.pstate.jt # PSTATE_JT_JAZELLE
                /\ cpu.r[PC] = a32_set_pc_mode(pre, obs.address).r[PC]


(***************************************************************************)
(* The Jazelle fetchers (emu.c j32_fetch8 .. arm_fetch32be).  The host     *)
(* memory never refuses, so none of them leaves through j32_break.  A      *)
(* fetcher yields the processor next to the value it returns.              *)
(***************************************************************************)
\* emu.c a32_get_instruction_endianness
a32_get_instruction_endianness(c) ==
    IF SCTLR_B \in c.sctlr_el1 THEN ARM_ENDIAN_SWAPPED ELSE ARM_ENDIAN_LITTLE

\* emu.c memory_read8: the byte at address ^ 3 under BE-32
memory_read8(memory, address, endian) ==
    memory[IF endian = ARM_ENDIAN_SWAPPED THEN address + 3 - 2 * (address % 4) ELSE address]

\* emu.c memory_read16 over memory_read_bytes16
memory_read16(memory, address, endian) ==
    LET b == IF endian # ARM_ENDIAN_SWAPPED THEN MemRead(memory, address, 2)
             ELSE IF address % 4 # 3
                  THEN MemRead(memory, (address + 3 - 2 * (address % 4)) - 1, 2)
             ELSE << memory[address + 4], memory[address - 3] >>
    IN  IF endian = ARM_ENDIAN_BIG THEN 256 * b[1] + b[2] ELSE b[1] + 256 * b[2]

\* byteswap.h bswap_16 of a value converted to uint16_t
bswap_16(value) == 256 * (value % 256) + ((value \div 256) % 256)

\* byteswap.h bswap_32
bswap_32(value) == WordLE32(Reverse4(BytesLE32(value)))

\* emu.c j32_fetch16: the value returned is an int16_t
j32_fetch16(c) ==
    LET value == memory_read16(c.memory, c.r[PC], a32_get_instruction_endianness(c))
        swapped == IF a32_get_instruction_endianness(c) = ARM_ENDIAN_LITTLE THEN bswap_16(value) ELSE value
    IN  [cpu |-> [c EXCEPT !.r[PC] = @ + 2],
         value |-> IF swapped >= 32768 THEN swapped - 65536 ELSE swapped]

\* emu.c j32_fetch32
j32_fetch32(c) ==
    LET value == memory_read32(c.memory, c.r[PC], a32_get_instruction_endianness(c))
    IN  [cpu |-> [c EXCEPT !.r[PC] = @ + 4],
         value |-> IF a32_get_instruction_endianness(c) = ARM_ENDIAN_LITTLE THEN bswap_32(value) ELSE value]

\* emu.c j32_fetch32_from: the word is swapped with bswap_16
j32_fetch32_from(c, offset) ==
    LET value == memory_read32(c.memory, offset, a32_get_instruction_endianness(c))
    IN  [cpu |-> c,
         value |-> IF a32_get_instruction_endianness(c) = ARM_ENDIAN_LITTLE THEN bswap_16(value) ELSE value]

\* emu.c arm_fetch32be: the word is swapped with bswap_16
arm_fetch32be(c, offset) ==
    LET value == memory_read32(c.memory, offset, a32_get_instruction_endianness(c))
    IN  [cpu |-> c,
         value |-> IF a32_get_instruction_endianness(c) = ARM_ENDIAN_LITTLE THEN bswap_16(value) ELSE value]

(***************************************************************************)
(* Specification SpecF: bytecodes that fetch immediates from an image      *)
(* loaded at the entry point, in each byte order.                          *)
(***************************************************************************)
\* bytecodes of one run
MaxFSteps == 3
\* the bytes of the image, loaded from EEntry up
FImage == << 17, 34, 51, 68, 85, 102, 119, 136, 153, 170, 187, 204 >>
\* the addresses a branch or a table lookup goes to
FAddrs == EEntry .. EEntry + 5

RECURSIVE FLoad(_, _)
\* main copies the image to increasing addresses byte by byte
\* (arm_memory_write8)
FLoad(c, n) ==
    IF n = 0 THEN c ELSE a32_write8(FLoad(c, n - 1), EEntry + n - 1, FImage[n])

InitF ==
    /\ \E endian \in {ARM_ENDIAN_LITTLE, ARM_ENDIAN_BIG, ARM_ENDIAN_SWAPPED} :
          cpu = FLoad([main_start("5tej", ISA_JAZELLE, endian, TRUE) EXCEPT !.r[PC] = EEntry], Len(FImage))
    /\ jstack = << >>
    /\ obs = [op |-> "start", address |-> 0, value |-> 0]
    /\ pre = cpu
    /\ steps = 0

\* a bytecode with an immediate of size bytes behind the opcode
FFetch ==
    /\ steps < MaxFSteps
    /\ \E c \in {Begin(cpu)} :
          /\ c.r[PC] + 4 <= EEntry + Len(FImage)
          /\ \E size \in {2, 4} :
                \E got \in {IF size = 2 THEN j32_fetch16(c) ELSE j32_fetch32(c)} :
                   /\ cpu' = got.cpu
                   /\ obs' = [op |-> IF size = 2 THEN "fetch16" ELSE "fetch32",
                              address |-> c.r[PC], value |-> got.value]
          /\ pre' = c
    /\ steps' = steps + 1
    /\ UNCHANGED jstack

\* a bytecode that reads a word of a table in the code
FFetchFrom ==
    /\ steps < MaxFSteps
    /\ \E c \in {Begin(cpu)} :
          /\ \E offset \in FAddrs :
                /\ cpu' = j32_fetch32_from(c, offset).cpu
                /\ obs' = [op |-> "fetch32_from", address |-> offset, value |-> j32_fetch32_from(c, offset).value]
          /\ pre' = c
    /\ steps' = steps + 1
    /\ UNCHANGED jstack

\* the same word read by arm_fetch32be between two bytecodes
FFetch32be ==
    /\ steps < MaxFSteps
    /\ \E offset \in FAddrs :
          obs' = [op |-> "fetch32be", address |-> offset, value |-> arm_fetch32be(cpu, offset).value]
    /\ pre' = cpu
    /\ steps' = steps + 1
    /\ UNCHANGED << cpu, jstack >>

\* a branch bytecode
FGoto ==
    /\ steps < MaxFSteps
    /\ \E c \in {Begin(cpu)} :
          /\ \E target \in FAddrs : cpu' = [c EXCEPT !.r[PC] = target]
          /\ pre' = c
    /\ obs' = [op |-> "goto", address |-> 0, value |-> 0]
    /\ steps' = steps + 1
    /\ UNCHANGED jstack

NextF == FFetch \/ FFetchFrom \/ FFetch32be \/ FGoto

SpecF == InitF /\ [][NextF]_vars

\* the byte the Jazelle byte stream holds i bytes behind the address fetched
FByte(i) == memory_read8(pre.memory, obs.address + i, a32_get_instruction_endianness(pre))

\* C29: every Jazelle fetch of a two- or four-byte immediate returns the
\* big-endian composition of the bytes at increasing addresses, b0<<8 | b1
\* or b0<<24 | b1<<16 | b2<<8 | b3, whatever the configured endianness.
C29_FetchBigEndian ==
    /\ obs.op = "fetch16" => obs.value % 65536 = 256 * FByte(0) + FByte(1)
    /\ obs.op \in {"fetch32", "fetch32_from", "fetch32be"}
          => obs.value = WordLE32(<< FByte(3), FByte(2), FByte(1), FByte(0) >>)


(***************************************************************************)
(* Saturating arithmetic (emu.c a32_qadd32, a32_qsub32).  A word is the    *)
(* int32_t with its bits.  The constant -0x80000000 has type unsigned int, *)
(* so the comparisons against it convert both sides to unsigned int and    *)
(* the sum or difference next to it wraps modulo 2^32.                     *)
(***************************************************************************)
INT32_MAX == 2147483647
INT32_MIN == (-2147483647) - 1

\* (unsigned)a < (unsigned)b for two words
UnsignedLess(a, b) == IF (a < 0) = (b < 0) THEN a < b ELSE b < 0

\* emu.c a32_qadd32: the set of [cpu, value] the call can end with;
\* -0x80000000 - op2 is computed only for op2 < 0, where it wraps to 0 for
\* op2 = INT32_MIN alone.  There a negative op1 reaches op1 + op2, a signed
\* overflow: the build may wrap the sum or fold the addition into either end
\* of the range
a32_qadd32(c, op1, op2) ==
    IF op2 >= 0 /\ op1 > INT32_MAX - op2
    THEN {[cpu |-> [c EXCEPT !.pstate.q = 1], value |-> INT32_MAX]}
    ELSE IF op2 < 0 /\ UnsignedLess(op1, INT32_MIN - op2)
    THEN {[cpu |-> [c EXCEPT !.pstate.q = 1], value |-> INT32_MIN]}
    ELSE IF op2 = INT32_MIN /\ op1 < 0
    THEN {[cpu |-> c, value |-> v] : v \in {op1 - INT32_MIN, INT32_MIN, INT32_MAX}}
    ELSE {[cpu |-> c, value |-> op1 + op2]}

\* emu.c a32_qsub32: -0x80000000 + op2 is computed only for op2 >= 0
a32_qsub32(c, op1, op2) ==
    IF op2 >= 0 /\ UnsignedLess(op1, INT32_MIN + op2)
    THEN [cpu |-> [c EXCEPT !.pstate.q = 1], value |-> INT32_MIN]
    ELSE IF op2 < 0 /\ op1 > INT32_MAX + op2
    THEN [cpu |-> [c EXCEPT !.pstate.q = 1], value |-> INT32_MAX]
    ELSE [cpu |-> c, value |-> op1 - op2]

(***************************************************************************)
(* Specification SpecQ: QADD and QSUB on registers loaded from the values  *)
(* at and around the ends of the range.                                    *)
(***************************************************************************)
\* instructions of one run
MaxQSteps == 3
\* the operands
QWords == {INT32_MAX, INT32_MIN, 0, 1, -1, 5}

InitQ ==
    /\ \E name \in {"5tej", "7-a"} :
          cpu = [main_start(name, ISA_AARCH32, ARM_ENDIAN_LITTLE, TRUE) EXCEPT !.r[PC] = EEntry]
    /\ jstack = << >>
    /\ obs = [op |-> "start", op1 |-> 0, op2 |-> 0, value |-> 0]
    /\ pre = cpu
    /\ steps = 0

\* MOV Rd, #value for R0 and R1
QMov ==
    /\ steps < MaxQSteps
    /\ \E c \in {Begin(cpu)} :
          /\ \E rd \in {0, 1}, value \in QWords : cpu' = a32_register_set32(c, rd, value)
          /\ pre' = c
    /\ obs' = [op |-> "mov", op1 |-> 0, op2 |-> 0, value |-> 0]
    /\ steps' = steps + 1
    /\ UNCHANGED jstack

\* QADD R2, R0, R1 and QSUB R2, R0, R1
QAddSub ==
    /\ steps < MaxQSteps
    /\ \E c \in {Begin(cpu)} :
          /\ \E op \in {"qadd", "qsub"} :
                \E got \in IF op = "qadd"
                           THEN a32_qadd32(c, a32_register_get32(c, 0), a32_register_get32(c, 1))
                           ELSE {a32_qsub32(c, a32_register_get32(c, 0), a32_register_get32(c, 1))} :
                   /\ cpu' = a32_register_set32(got.cpu, 2, got.value)
                   /\ obs' = [op |-> op, op1 |-> a32_register_get32(c, 0),
                              op2 |-> a32_register_get32(c, 1), value |-> got.value]
          /\ pre' = c
    /\ steps' = steps + 1
    /\ UNCHANGED jstack

\* MSR CPSR_f clearing the Q flag
QClear ==
    /\ steps < MaxQSteps
    /\ cpu.pstate.q = 1
    /\ \E c \in {Begin(cpu)} :
          /\ cpu' = [c EXCEPT !.pstate.q = 0]
          /\ pre' = c
    /\ obs' = [op |-> "msr", op1 |-> 0, op2 |-> 0, value |-> 0]
    /\ steps' = steps + 1
    /\ UNCHANGED jstack

NextQ == QMov \/ QAddSub \/ QClear

SpecQ == InitQ /\ [][NextQ]_vars

\* whether the exact a + b lies above INT32_MAX, or below INT32_MIN
AddAbove(a, b) == b > 0 /\ a > INT32_MAX - b
AddBelow(a, b) == b < 0 /\ a < INT32_MIN - b
\* whether the exact a - b lies above INT32_MAX, or below INT32_MIN
SubAbove(a, b) == b < 0 /\ a > INT32_MAX + b
SubBelow(a, b) == b > 0 /\ a < INT32_MIN + b

\* C30: a32_qadd32 and a32_qsub32 return the exact sum or difference clamped
\* to [INT_MIN, INT_MAX] and set Q exactly when they clamped, leaving Q
\* unchanged otherwise.
C30_SaturateExactly ==
    /\ obs.op = "qadd"
          => /\ obs.value = IF AddAbove(obs.op1, obs.op2) THEN INT32_MAX
                            ELSE IF AddBelow(obs.op1, obs.op2) THEN INT32_MIN
                            ELSE obs.op1 + obs.op2
             /\ cpu.pstate.q = IF AddAbove(obs.op1, obs.op2) \/ AddBelow(obs.op1, obs.op2)
                               THEN 1 ELSE pre.pstate.q
    /\ obs.op = "qsub"
          => /\ obs.value = IF SubAbove(obs.op1, obs.op2) THEN INT32_MAX
                            ELSE IF SubBelow(obs.op1, obs.op2) THEN INT32_MIN
                            ELSE obs.op1 - obs.op2
             /\ cpu.pstate.q = IF SubAbove(obs.op1, obs.op2) \/ SubBelow(obs.op1, obs.op2)
                               THEN 1 ELSE pre.pstate.q


(***************************************************************************)
(* Count leading zeros (emu.c clz32, clz64).  An operand is the set of the *)
(* positions of its one bits.  The masks are computed as int: 1 << 31 is   *)
(* INT_MIN, which widens to the bits 31 .. 63 in clz64, and a shift by 32  *)
(* or more is undefined: the build either takes the count modulo 32 or     *)
(* yields 0.                                                               *)
(***************************************************************************)
\* the outcomes of a shift of an int by 32 or more
ShiftOutcomes == {"modulo", "zero"}

\* (uint64_t)(1 << count) for an int 1, as a set of bit positions
IntShiftLeft64(count, outcome) ==
    LET n == IF count >= 32 THEN count % 32 ELSE count
    IN  IF count >= 32 /\ outcome = "zero" THEN {}
        ELSE IF n = 31 THEN 31 .. 63
        ELSE {n}

RECURSIVE clz32_from(_, _)
\* emu.c clz32: the loop from position on
clz32_from(op, position) ==
    IF position >= 32 THEN position
    ELSE IF (31 - position) \in op THEN position
    ELSE clz32_from(op, position + 1)

\* emu.c clz32
clz32(op) == clz32_from(op, 0)

RECURSIVE clz64_from(_, _, _)
\* emu.c clz64: the loop from position on, the mask being 1 << (64 - position)
clz64_from(op, position, outcome) ==
    IF position >= 64 THEN position
    ELSE IF op \cap IntShiftLeft64(64 - position, outcome) # {} THEN position
    ELSE clz64_from(op, position + 1, outcome)

\* emu.c clz64
clz64(op, outcome) == clz64_from(op, 0, outcome)

(***************************************************************************)
(* Specification SpecZ: CLZ of either width on 0 and on each power of two. *)
(***************************************************************************)
\* instructions of one run
MaxZSteps == 3
\* the operands: 0 and 1 << k
ZOperands == {{}} \cup {{k} : k \in 0 .. 63}

InitZ ==
    /\ cpu = main_start("8-a", ISA_AARCH64, ARM_ENDIAN_LITTLE, TRUE)
    /\ jstack = << >>
    /\ obs = [op |-> "start", bits |-> {}, value |-> 0]
    /\ pre = cpu
    /\ steps = 0

\* an instruction that loads the operand register
ZLoad ==
    /\ steps < MaxZSteps
    /\ \E bits \in ZOperands : obs' = [op |-> "load", bits |-> bits, value |-> 0]
    /\ steps' = steps + 1
    /\ UNCHANGED << cpu, jstack, pre >>

\* CLZ Wd, Wn
ZClz32 ==
    /\ steps < MaxZSteps
    /\ obs.bits \subseteq 0 .. 31
    /\ obs' = [op |-> "clz32", bits |-> obs.bits, value |-> clz32(obs.bits)]
    /\ steps' = steps + 1
    /\ UNCHANGED << cpu, jstack, pre >>

\* CLZ Xd, Xn
ZClz64 ==
    /\ steps < MaxZSteps
    /\ \E outcome \in ShiftOutcomes :
          obs' = [op |-> "clz64", bits |-> obs.bits, value |-> clz64(obs.bits, outcome)]
    /\ steps' = steps + 1
    /\ UNCHANGED << cpu, jstack, pre >>

NextZ == ZLoad \/ ZClz32 \/ ZClz64

SpecZ == InitZ /\ [][NextZ]_vars

\* C31: count-leading-zeros returns the width for 0 and width - 1 - k for
\* 1 << k, in the 32-bit and in the 64-bit form.
C31_CountLeadingZeros ==
    /\ obs.op = "clz32"
          => obs.value = IF obs.bits = {} THEN 32 ELSE 31 - (CHOOSE k \in obs.bits : TRUE)
    /\ obs.op = "clz64"
          => obs.value = IF obs.bits = {} THEN 64 ELSE 63 - (CHOOSE k \in obs.bits : TRUE)


(***************************************************************************)
(* A64 add and subtract with flags (emu.c a64_add32 .. a64_sub64).  A      *)
(* 32-bit operand is a word; a 64-bit operand is [hi, lo], two words.      *)
(***************************************************************************)
\* ~x on a word
Not32(x) == (-1) - x

\* (uint32_t)(a + b) on words
WrapAdd32(a, b) ==
    IF a >= 0 /\ b > INT32_MAX - a THEN (a + INT32_MIN) + (b + INT32_MIN)
    ELSE IF a < 0 /\ b < INT32_MIN - a THEN (a - INT32_MIN) + (b - INT32_MIN)
    ELSE a + b

\* a + b + carry on 64-bit operands, carry 0 or 1
WrapAdd64(a, b, carry) ==
    LET lo0 == WrapAdd32(a.lo, b.lo)
        lo == WrapAdd32(lo0, carry)
        c0 == IF UnsignedLess(lo0, a.lo) THEN 1 ELSE 0
        c1 == IF carry = 1 /\ lo = 0 THEN 1 ELSE 0
    IN  [hi |-> WrapAdd32(WrapAdd32(a.hi, b.hi), c0 + c1), lo |-> lo]

\* ~x on a 64-bit operand
Not64(x) == [hi |-> Not32(x.hi), lo |-> Not32(x.lo)]

\* the top bit of the three-operand terms the flag tests shift down
CarryTerm(op1, op2, res) == (op1 /\ op2) \/ (op1 /\ ~res) \/ (op2 /\ ~res)
OverflowTerm(op1, op2, res) == (op1 /\ op2 /\ ~res) \/ (~op1 /\ ~op2 /\ res)

\* emu.c a64_test32_nzvc over a64_test32_nz: both assignments go to pstate.c
a64_test32_nzvc(c, res, op1, op2) ==
    LET c1 == [c EXCEPT !.pstate.c = IF CarryTerm(op1 < 0, op2 < 0, res < 0) THEN 1 ELSE 0]
        c2 == [c1 EXCEPT !.pstate.c = IF OverflowTerm(op1 < 0, op2 < 0, res < 0) THEN 1 ELSE 0]
    IN  [c2 EXCEPT !.pstate.z = IF res = 0 THEN 1 ELSE 0, !.pstate.n = IF res < 0 THEN 1 ELSE 0]

\* emu.c a64_test64_nzvc over a64_test64_nz
a64_test64_nzvc(c, res, op1, op2) ==
    [c EXCEPT !.pstate.c = IF CarryTerm(op1.hi < 0, op2.hi < 0, res.hi < 0) THEN 1 ELSE 0,
              !.pstate.v = IF OverflowTerm(op1.hi < 0, op2.hi < 0, res.hi < 0) THEN 1 ELSE 0,
              !.pstate.z = IF res.hi = 0 /\ res.lo = 0 THEN 1 ELSE 0,
              !.pstate.n = IF res.hi < 0 THEN 1 ELSE 0]

\* emu.c a64_add32 with set_flags
a64_add32(c, op1, op2) ==
    LET res == WrapAdd32(op1, op2)
    IN  [cpu |-> a64_test32_nzvc(c, res, op1, op2), value |-> res]

\* emu.c a64_sub32 with set_flags: op1 - op2 is op1 + ~op2 + 1
a64_sub32(c, op1, op2) ==
    LET res == WrapAdd32(WrapAdd32(op1, Not32(op2)), 1)
    IN  [cpu |-> a64_test32_nzvc(c, res, op1, Not32(op2)), value |-> res]

\* emu.c a64_add64 with set_flags
a64_add64(c, op1, op2) ==
    LET res == WrapAdd64(op1, op2, 0)
    IN  [cpu |-> a64_test64_nzvc(c, res, op1, op2), value |-> res]

\* emu.c a64_sub64 with set_flags
a64_sub64(c, op1, op2) ==
    LET res == WrapAdd64(op1, Not64(op2), 1)
    IN  [cpu |-> a64_test64_nzvc(c, res, op1, Not64(op2)), value |-> res]

(***************************************************************************)
(* Specification SpecN: ADDS and SUBS of either width.                     *)
(***************************************************************************)
\* instructions of one run
MaxNSteps == 3
\* the halves of the operands
NWords == {0, 1, -1, INT32_MAX, INT32_MIN}
\* the operands: registers X0 and X1
NOperands == [hi : {0, -1, INT32_MAX, INT32_MIN}, lo : NWords]

InitN ==
    /\ cpu = [main_start("8-a", ISA_AARCH64, ARM_ENDIAN_LITTLE, TRUE) EXCEPT !.r[PC] = EEntry]
    /\ jstack = << >>
    /\ obs = [op |-> "start", op1 |-> [hi |-> 0, lo |-> 0], op2 |-> [hi |-> 0, lo |-> 0],
              value |-> [hi |-> 0, lo |-> 0]]
    /\ pre = cpu
    /\ steps = 0

\* instructions that load X0 and X1
NLoad ==
    /\ steps < MaxNSteps
    /\ \E c \in {Begin(cpu)} :
          /\ cpu' = c
          /\ pre' = c
    /\ \E op1 \in NOperands, op2 \in NOperands :
          obs' = [op |-> "load", op1 |-> op1, op2 |-> op2, value |-> [hi |-> 0, lo |-> 0]]
    /\ steps' = steps + 1
    /\ UNCHANGED jstack

\* ADDS W2, W0, W1 and SUBS W2, W0, W1
NAddSub32 ==
    /\ steps < MaxNSteps
    /\ obs.op # "start"
    /\ \E c \in {Begin(cpu)} :
          /\ \E op \in {"adds32", "subs32"} :
                \E got \in {IF op = "adds32" THEN a64_add32(c, obs.op1.lo, obs.op2.lo)
                            ELSE a64_sub32(c, obs.op1.lo, obs.op2.lo)} :
                   /\ cpu' = got.cpu
                   /\ obs' = [obs EXCEPT !.op = op, !.value = [hi |-> 0, lo |-> got.value]]
          /\ pre' = c
    /\ steps' = steps + 1
    /\ UNCHANGED jstack

\* ADDS X2, X0, X1 and SUBS X2, X0, X1
NAddSub64 ==
    /\ steps < MaxNSteps
    /\ obs.op # "start"
    /\ \E c \in {Begin(cpu)} :
          /\ \E op \in {"adds64", "subs64"} :
                \E got \in {IF op = "adds64" THEN a64_add64(c, obs.op1, obs.op2)
                            ELSE a64_sub64(c, obs.op1, obs.op2)} :
                   /\ cpu' = got.cpu
                   /\ obs' = [obs EXCEPT !.op = op, !.value = got.value]
          /\ pre' = c
    /\ steps' = steps + 1
    /\ UNCHANGED jstack

NextN == NLoad \/ NAddSub32 \/ NAddSub64

SpecN == InitN /\ [][NextN]_vars

\* (unsigned)a < (unsigned)b for two 64-bit operands
UnsignedLess64(a, b) == IF a.hi = b.hi THEN UnsignedLess(a.lo, b.lo) ELSE UnsignedLess(a.hi, b.hi)

\* the flags as a tuple N, Z, C, V
NFlags(n, z, c, v) ==
    << IF n THEN 1 ELSE 0, IF z THEN 1 ELSE 0, IF c THEN 1 ELSE 0, IF v THEN 1 ELSE 0 >>

\* C32: a flag-setting A64 add or subtract sets N to the top bit of the
\* result, Z when the result is 0, C to the unsigned carry out of the top bit
\* and V on signed overflow, at bit 31 in the 32-bit form and at bit 63 in
\* the 64-bit form.
C32_FlagsFromResult ==
    LET a == obs.op1
        b == obs.op2
        r == obs.value
        flags == << cpu.pstate.n, cpu.pstate.z, cpu.pstate.c, cpu.pstate.v >>
    IN  /\ obs.op = "adds32"
              => flags = NFlags(r.lo < 0, r.lo = 0, UnsignedLess(r.lo, a.lo),
                                AddAbove(a.lo, b.lo) \/ AddBelow(a.lo, b.lo))
        /\ obs.op = "subs32"
              => flags = NFlags(r.lo < 0, r.lo = 0, ~UnsignedLess(a.lo, b.lo),
                                SubAbove(a.lo, b.lo) \/ SubBelow(a.lo, b.lo))
        /\ obs.op = "adds64"
              => flags = NFlags(r.hi < 0, r = [hi |-> 0, lo |-> 0], UnsignedLess64(r, a),
                                (a.hi < 0) = (b.hi < 0) /\ (r.hi < 0) # (a.hi < 0))
        /\ obs.op = "subs64"
              => flags = NFlags(r.hi < 0, r = [hi |-> 0, lo |-> 0], ~UnsignedLess64(a, b),
                                (a.hi < 0) # (b.hi < 0) /\ (r.hi < 0) # (a.hi < 0))


(***************************************************************************)
(* Signed bitfield move (emu.c a64_sbfm64, a64_sbfm32).  Operands and      *)
(* masks are sets of bit positions.                                        *)
(***************************************************************************)
\* rotate_right64, rotate_right32: bit k moves to k - amount modulo width
RotateRight(bits, amount, width) == {(k + width - amount) % width : k \in bits}

\* emu.c a64_sbfm64: sign is the top bit of the whole operand
a64_sbfm64(op, immr, imms) ==
    LET diff == ((imms % 64) + 64 - (immr % 64)) % 64
        wmask == 0 .. (imms % 64)
        tmask == 0 .. diff
        rotated == RotateRight(op \cap wmask, immr % 64, 64)
    IN  (IF 63 \in op THEN (0 .. 63) \ tmask ELSE {}) \cup (rotated \cap tmask)

\* emu.c a64_sbfm32 for imms and diff below 30, where the int masks
\* (1 << (n + 1)) - 1 neither shift by the width nor overflow
a64_sbfm32(op, immr, imms) ==
    LET diff == ((imms % 32) + 32 - (immr % 32)) % 32
        wmask == 0 .. (imms % 32)
        tmask == 0 .. diff
        rotated == RotateRight(op \cap wmask, immr % 32, 32)
    IN  (IF 31 \in op THEN (0 .. 31) \ tmask ELSE {}) \cup (rotated \cap tmask)

(***************************************************************************)
(* Specification SpecS: SBFM of either width, SXTB among its forms.        *)
(***************************************************************************)
\* instructions of one run
MaxSSteps == 3
\* the source registers
SSources == {{}, {7}, {7, 63}, {7, 31}, {63}, {31}, {0, 5, 15}, 0 .. 63}
\* the immediates: SXTB is immr 0 with imms 7
SImmr == {0, 4, 60}
SImms == {3, 7, 15}

InitS ==
    /\ cpu = [main_start("8-a", ISA_AARCH64, ARM_ENDIAN_LITTLE, TRUE) EXCEPT !.r[PC] = EEntry]
    /\ jstack = << >>
    /\ obs = [op |-> "start", width |-> 64, bits |-> {}, immr |-> 0, imms |-> 0, value |-> {}]
    /\ pre = cpu
    /\ steps = 0

\* an instruction that loads the source register
SLoad ==
    /\ steps < MaxSSteps
    /\ \E bits \in SSources :
          obs' = [op |-> "load", width |-> 64, bits |-> bits, immr |-> 0, imms |-> 0, value |-> {}]
    /\ steps' = steps + 1
    /\ UNCHANGED << cpu, jstack, pre >>

\* SBFM Wd, Wn, #immr, #imms on the low word of the source
SSbfm32 ==
    /\ steps < MaxSSteps
    /\ obs.op # "start"
    /\ \E immr \in {r % 32 : r \in SImmr}, imms \in SImms :
          obs' = [op |-> "sbfm", width |-> 32, bits |-> obs.bits \cap (0 .. 31), immr |-> immr, imms |-> imms,
                  value |-> a64_sbfm32(obs.bits \cap (0 .. 31), immr, imms)]
    /\ steps' = steps + 1
    /\ UNCHANGED << cpu, jstack, pre >>

\* SBFM Xd, Xn, #immr, #imms
SSbfm64 ==
    /\ steps < MaxSSteps
    /\ obs.op # "start"
    /\ \E immr \in SImmr, imms \in SImms :
          obs' = [op |-> "sbfm", width |-> 64, bits |-> obs.bits, immr |-> immr, imms |-> imms,
                  value |-> a64_sbfm64(obs.bits, immr, imms)]
    /\ steps' = steps + 1
    /\ UNCHANGED << cpu, jstack, pre >>

NextS == SLoad \/ SSbfm32 \/ SSbfm64

SpecS == InitS /\ [][NextS]_vars

\* C33: SBFM sign-extends from source bit imms: every result bit above the
\* moved field equals source bit imms, so with immr = 0 and imms = 7 the
\* result is the low byte sign-extended to the register width.
C33_SignFromFieldTop ==
    obs.op = "sbfm"
        => LET top == (obs.imms + obs.width - obs.immr) % obs.width
           IN  /\ \A k \in (top + 1) .. (obs.width - 1) : (k \in obs.value) <=> (obs.imms \in obs.bits)
               /\ obs.immr = 0 /\ obs.imms = 7
                     => obs.value = (obs.bits \cap (0 .. 7))
                                        \cup (IF 7 \in obs.bits THEN 8 .. (obs.width - 1) ELSE {})


(***************************************************************************)
(* Settling the architecture from the command line (main.c init_isa).      *)
(* cfg is [version, features, fp_version]; the profile is bits 0 and 1 of  *)
(* features.                                                               *)
(***************************************************************************)
ARM_UNKNOWN == 0
ISA_UNKNOWN == 0
SYNTAX_UNKNOWN == 0
SYNTAX_DIVIDED == 1
SYNTAX_UNIFIED == 2
THUMB2_PERMITTED == -1
THUMB2_EXCLUDED == 0
THUMB2_EXPECTED == 1
FEATURE_SWP == 2
FEATURE_MULL == 5
FEATURE_DSP_PAIR == 8
FEATURE_MULTIPROC == 10
FEATURE_FPA == 18
FEATURE_VFP == 19
FEATURE_SIMD == 23
ARM_VFPV2 == 2
ARM_VFPV3 == 3
ARM_VFPV4 == 4
ARM_VFPV5 == 5
ARM_V8FP == 6
\* the profile M as the bits 0 and 1 of features
ARM_PROFILE_M == {0, 1}

\* main.c arm_default_features
arm_default_features ==
    [v \in ARMV1 .. ARMV8 |->
        IF v <= ARMV2 THEN {FEATURE_ARM26}
        ELSE IF v <= ARMV5 THEN {FEATURE_SWP, FEATURE_ARM32}
        ELSE {FEATURE_SWP, FEATURE_ARM32, FEATURE_MULL, FEATURE_THUMB, FEATURE_ENH_DSP,
              FEATURE_DSP_PAIR, FEATURE_JAZELLE}
                 \cup (IF v >= ARMV7 THEN {FEATURE_THUMB2} ELSE {})
                 \cup (IF v >= ARMV8 THEN {FEATURE_MULTIPROC, FEATURE_SECURITY, FEATURE_VIRTUALIZATION,
                                           FEATURE_ARM64} ELSE {})]

\* init_isa, first part: the instruction set and the version agree
init_isa_version(cfg, isa, thumb2, force32bit) ==
    LET v == cfg.version
        known == IF v = ARM_UNKNOWN THEN ARMV7 ELSE v
    IN  CASE isa = ISA_UNKNOWN ->
               [cfg |-> [cfg EXCEPT !.version = known],
                isa |-> IF known <= ARMV2 THEN ISA_AARCH26
                        ELSE IF known <= ARMV7 THEN ISA_AARCH32
                        ELSE IF force32bit THEN ISA_AARCH32 ELSE ISA_AARCH64]
          [] isa = ISA_AARCH26 ->
               [cfg |-> [cfg EXCEPT !.version = IF v = ARM_UNKNOWN \/ v > ARMV3 THEN ARMV3 ELSE v,
                                    !.features = @ \cup {FEATURE_ARM26}],
                isa |-> isa]
          [] isa = ISA_AARCH32 ->
               [cfg |-> [cfg EXCEPT !.version = IF v = ARM_UNKNOWN THEN ARMV7
                                                ELSE IF v < ARMV3 THEN ARMV3 ELSE v,
                                    !.features = @ \cup {FEATURE_ARM32}],
                isa |-> isa]
          [] isa = ISA_THUMB32 ->
               LET expected == IF v # ARM_UNKNOWN /\ ~(thumb2 = THUMB2_EXPECTED /\ v < ARMV6)
                                  /\ thumb2 = THUMB2_EXCLUDED /\ v >= ARMV7
                               THEN THUMB2_EXPECTED ELSE thumb2
               IN  [cfg |-> [cfg EXCEPT !.version =
                                            IF v = ARM_UNKNOWN
                                            THEN (IF thumb2 = THUMB2_EXCLUDED THEN ARMV6 ELSE ARMV7)
                                            ELSE IF thumb2 = THUMB2_EXPECTED /\ v < ARMV6 THEN ARMV6
                                            ELSE IF thumb2 = THUMB2_EXCLUDED /\ v >= ARMV7 THEN v
                                            ELSE IF v < ARMV4 THEN ARMV4 ELSE v,
                                        !.features = @ \cup {FEATURE_THUMB}
                                            \cup (IF expected = THUMB2_EXPECTED THEN {FEATURE_THUMB2} ELSE {})],
                    isa |-> isa]
          [] isa = ISA_JAZELLE ->
               [cfg |-> [cfg EXCEPT !.version = IF v = ARM_UNKNOWN THEN ARMV6
                                                ELSE IF v < ARMV5 THEN ARMV5 ELSE v,
                                    !.features = @ \cup {FEATURE_JAZELLE}],
                isa |-> isa]
          [] isa = ISA_THUMBEE ->
               [cfg |-> [cfg EXCEPT !.version = ARMV7], isa |-> isa]
          [] isa = ISA_AARCH64 ->
               [cfg |-> [cfg EXCEPT !.version = IF v = ARM_UNKNOWN \/ v < ARMV8 THEN ARMV8 ELSE v],
                isa |-> isa]

\* init_isa, the selection of the default coprocessor, with the test of the
\* M profile as the flag tells
init_isa_fp(cfg, m_profile_tested) ==
    LET need_fp == FEATURE_VFP \in cfg.features
        need_simd == FEATURE_SIMD \in cfg.features
    IN  IF ~(cfg.fp_version = 0 /\ (need_fp \/ need_simd)) THEN cfg
        ELSE IF cfg.version = ARMV1
        THEN [cfg EXCEPT !.features = @ \ {FEATURE_VFP, FEATURE_SIMD}]
        ELSE IF cfg.version <= ARMV4
        THEN [cfg EXCEPT !.features = IF need_fp THEN (@ \ {FEATURE_SIMD, FEATURE_VFP}) \cup {FEATURE_FPA}
                                      ELSE @ \ {FEATURE_SIMD}]
        ELSE IF cfg.version <= ARMV6
        THEN [cfg EXCEPT !.features = @ \ {FEATURE_SIMD},
                         !.fp_version = IF need_fp THEN ARM_VFPV2 ELSE @]
        ELSE IF cfg.version = ARMV7
        THEN [cfg EXCEPT !.fp_version = IF m_profile_tested /\ ARM_PROFILE_M \subseteq cfg.features
                                        THEN ARM_VFPV5
                                        ELSE IF FEATURE_VIRTUALIZATION \notin cfg.features THEN ARM_VFPV3
                                        ELSE ARM_VFPV4]
        ELSE [cfg EXCEPT !.fp_version = ARM_V8FP]

\* the whole of init_isa on [cfg, isa, syntax], with the flag of init_isa_fp
init_isa_with(env, thumb2, force32bit, m_profile_tested) ==
    LET settled == init_isa_version(env.cfg, env.isa, thumb2, force32bit)
        cfg1 == [settled.cfg EXCEPT !.features = @ \cup arm_default_features[settled.cfg.version]]
    IN  [cfg |-> init_isa_fp(cfg1, m_profile_tested),
         isa |-> settled.isa,
         syntax |-> IF env.syntax # SYNTAX_UNKNOWN THEN env.syntax
                    ELSE IF settled.cfg.version < ARMV7 THEN SYNTAX_DIVIDED ELSE SYNTAX_UNIFIED]

\* init_isa had it not tested the M profile at ARMv7
init_isa_any_profile(env, thumb2, force32bit) ==
    init_isa_with(env, thumb2, force32bit, FALSE)

\* main.c init_isa
init_isa(env, thumb2, force32bit) ==
    init_isa_with(env, thumb2, force32bit, TRUE)

\* ---- main's command line followed by init_isa --------------------------
MaxISteps == 4

ARM_PROFILE_A == {0}
ARM_PROFILE_R == {1}
ARMV6_DEFAULT_FEATURES == arm_default_features[ARMV6]
ARMV7_DEFAULT_FEATURES == arm_default_features[ARMV7]

\* rows of main.c arm_names: "1", "2", "3g", "4t", "5", "arm1020e", "6",
\* "6-m", "7-a", "7-r", "7-m", "7ve", "8-a", "8-m"
IArchRows ==
    { [version |-> ARMV1, features |-> {FEATURE_ARM26}],
      [version |-> ARMV2, features |-> {FEATURE_ARM26}],
      [version |-> ARMV3, features |-> {FEATURE_SWP, FEATURE_ARM32}],
      [version |-> ARMV4, features |-> {FEATURE_SWP, FEATURE_ARM32, FEATURE_MULL, FEATURE_THUMB}],
      [version |-> ARMV5, features |-> {FEATURE_SWP, FEATURE_ARM32, FEATURE_MULL}],
      [version |-> ARMV5, features |-> {FEATURE_SWP, FEATURE_ARM32, FEATURE_MULL, FEATURE_THUMB,
                                        FEATURE_ENH_DSP, FEATURE_VFP}],
      [version |-> ARMV6, features |-> ARMV6_DEFAULT_FEATURES],
      [version |-> ARMV6, features |-> ARMV6_DEFAULT_FEATURES \cup ARM_PROFILE_M],
      [version |-> ARMV7, features |-> ARMV7_DEFAULT_FEATURES \cup ARM_PROFILE_A],
      [version |-> ARMV7, features |-> ARMV7_DEFAULT_FEATURES \cup ARM_PROFILE_R],
      [version |-> ARMV7, features |-> ARMV7_DEFAULT_FEATURES \cup ARM_PROFILE_M],
      [version |-> ARMV7, features |-> ARMV7_DEFAULT_FEATURES \cup ARM_PROFILE_A \cup {FEATURE_VIRTUALIZATION}],
      [version |-> ARMV8, features |-> arm_default_features[ARMV8] \cup ARM_PROFILE_A],
      [version |-> ARMV8, features |-> (arm_default_features[ARMV8] \ {FEATURE_ARM64}) \cup ARM_PROFILE_M] }

\* rows of main.c arm_option_names: "nofp", "fp", "vfpv1xd", "nosimd", "simd"
IOptionRows ==
    { [features |-> {}, min_fp |-> 0, remove_features |-> {FEATURE_FPA, FEATURE_VFP}],
      [features |-> {FEATURE_VFP}, min_fp |-> 0, remove_features |-> {}],
      [features |-> {FEATURE_VFP}, min_fp |-> 1, remove_features |-> {}],
      [features |-> {}, min_fp |-> 0, remove_features |-> {FEATURE_SIMD}],
      [features |-> {FEATURE_SIMD}, min_fp |-> 0, remove_features |-> {}] }

\* the instruction set options of main: -26, -32, -thumb, -thumb2, -thumb1,
\* -thumbee, -jazelle, -64
IIsaOptions ==
    { [isa |-> ISA_AARCH26, thumb2 |-> THUMB2_PERMITTED],
      [isa |-> ISA_AARCH32, thumb2 |-> THUMB2_PERMITTED],
      [isa |-> ISA_THUMB32, thumb2 |-> THUMB2_PERMITTED],
      [isa |-> ISA_THUMB32, thumb2 |-> THUMB2_EXPECTED],
      [isa |-> ISA_THUMB32, thumb2 |-> THUMB2_EXCLUDED],
      [isa |-> ISA_THUMBEE, thumb2 |-> THUMB2_PERMITTED],
      [isa |-> ISA_JAZELLE, thumb2 |-> THUMB2_PERMITTED],
      [isa |-> ISA_AARCH64, thumb2 |-> THUMB2_PERMITTED] }

\* main.c main: memset(env, 0, ...), isa unknown, Thumb-2 permitted
IEnv0 ==
    [cfg |-> [version |-> ARM_UNKNOWN, features |-> {}, fp_version |-> 0],
     isa |-> ISA_UNKNOWN, syntax |-> SYNTAX_UNKNOWN]

InitI ==
    /\ cpu = main_start("7-a", ISA_AARCH32, ARM_ENDIAN_LITTLE, FALSE)
    /\ jstack = << >>
    /\ obs = [op |-> "none", env |-> IEnv0, thumb2 |-> THUMB2_PERMITTED, named |-> FALSE,
              before |-> IEnv0]
    /\ pre = cpu
    /\ steps = 0

IParsing ==
    /\ obs.op # "init_isa"
    /\ steps < MaxISteps

\* main.c main: -v<name>
IArch ==
    /\ IParsing
    /\ \E row \in IArchRows :
          obs' = [obs EXCEPT !.op = "arch", !.named = TRUE,
                             !.env.cfg.version = row.version,
                             !.env.cfg.features = row.features]
    /\ steps' = steps + 1
    /\ UNCHANGED << cpu, jstack, pre >>

\* main.c main: +<option> after -v<name>
IOption ==
    /\ IParsing
    /\ obs.named
    /\ \E option \in IOptionRows :
          obs' = [obs EXCEPT !.op = "option",
                             !.env.cfg.features = (@ \ option.remove_features) \cup option.features,
                             !.env.cfg.fp_version = IF option.min_fp > @ THEN option.min_fp ELSE @]
    /\ steps' = steps + 1
    /\ UNCHANGED << cpu, jstack, pre >>

\* main.c main: an instruction set option
IIsa ==
    /\ IParsing
    /\ \E option \in IIsaOptions :
          obs' = [obs EXCEPT !.op = "isa", !.env.isa = option.isa, !.thumb2 = option.thumb2]
    /\ steps' = steps + 1
    /\ UNCHANGED << cpu, jstack, pre >>

\* main.c main: init_isa(&env->config, &env->isa, &env->syntax, env->thumb2, false)
IInitIsa ==
    /\ obs.op # "init_isa"
    /\ obs' = [obs EXCEPT !.op = "init_isa", !.before = obs.env,
                          !.env = init_isa(obs.env, obs.thumb2, FALSE)]
    /\ steps' = steps + 1
    /\ UNCHANGED << cpu, jstack, pre >>

NextI ==
    \/ IArch
    \/ IOption
    \/ IIsa
    \/ IInitIsa

SpecI == InitI /\ [][NextI]_vars

\* init_isa was entered with VFP or SIMD asked for and no FP version given
IRequested ==
    /\ obs.op = "init_isa"
    /\ obs.before.cfg.fp_version = 0
    /\ obs.before.cfg.features \cap {FEATURE_VFP, FEATURE_SIMD} # {}

INeedFp == FEATURE_VFP \in obs.before.cfg.features

\* C34 as stated: with VFP or SIMD asked for and no FP version given, FPA is
\* selected for every version up to ARMv4 (ARMv1 included), VFPv2 for ARMv5
\* and ARMv6, VFPv3 for ARMv7 without virtualization and VFPv4 with it
\* whatever the profile, and the ARMv8 FP unit from ARMv8 on.
C34_DefaultFpAsStated ==
    IRequested =>
        LET cfg == obs.env.cfg
        IN  /\ cfg.version <= ARMV4 => FEATURE_FPA \in cfg.features
            /\ cfg.version \in {ARMV5, ARMV6} => cfg.fp_version = ARM_VFPV2
            /\ cfg.version = ARMV7 =>
                  cfg.fp_version = IF FEATURE_VIRTUALIZATION \in cfg.features
                                   THEN ARM_VFPV4 ELSE ARM_VFPV3
            /\ cfg.version >= ARMV8 => cfg.fp_version = ARM_V8FP

\* C34 amended: with VFP or SIMD asked for and no FP version given, ARMv1
\* gets no floating point at all (VFP and SIMD are withdrawn), ARMv2 to
\* ARMv4 get FPA in place of VFP when VFP was asked for, ARMv5 and ARMv6 get
\* VFPv2 when VFP was asked for, ARMv7 gets VFPv5 in the M profile and
\* otherwise VFPv3 without virtualization and VFPv4 with it, and ARMv8 gets
\* the ARMv8 FP unit; up to ARMv6 SIMD is withdrawn and a request for SIMD
\* alone selects no FP version.
C34_DefaultFp ==
    IRequested =>
        LET cfg == obs.env.cfg
            asked == obs.before.cfg.features
        IN  /\ cfg.version = ARMV1 =>
                  /\ cfg.features \cap {FEATURE_VFP, FEATURE_SIMD} = {}
                  /\ FEATURE_FPA \in cfg.features <=> FEATURE_FPA \in asked
                  /\ cfg.fp_version = 0
            /\ cfg.version \in ARMV2 .. ARMV4 =>
                  /\ cfg.features \cap {FEATURE_VFP, FEATURE_SIMD} = {}
                  /\ FEATURE_FPA \in cfg.features <=> (INeedFp \/ FEATURE_FPA \in asked)
                  /\ cfg.fp_version = 0
            /\ cfg.version \in {ARMV5, ARMV6} =>
                  /\ FEATURE_SIMD \notin cfg.features
                  /\ cfg.fp_version = IF INeedFp THEN ARM_VFPV2 ELSE 0
            /\ cfg.version = ARMV7 =>
                  cfg.fp_version = IF ARM_PROFILE_M \subseteq cfg.features THEN ARM_VFPV5
                                   ELSE IF FEATURE_VIRTUALIZATION \in cfg.features THEN ARM_VFPV4
                                   ELSE ARM_VFPV3
            /\ cfg.version = ARMV8 => cfg.fp_version = ARM_V8FP
            /\ cfg.version \in ARMV1 .. ARMV8

\* floating point was asked for on an M profile ARMv7 and VFPv5 was selected
C34_Witness ==
    /\ IRequested
    /\ obs.env.cfg.version = ARMV7
    /\ ARM_PROFILE_M \subseteq obs.env.cfg.features
    /\ obs.env.cfg.fp_version = ARM_VFPV5


(***************************************************************************)
(* The staging buffers of BE-32 guests (main.c                             *)
(* memory_acquire_block_reversed, memory_synchronize_block_reversed).      *)
(* Guest memory is a function from addresses to bytes, a buffer a function *)
(* from 0 .. size - 1 to bytes, a uint32_t its four bytes in memory order. *)
(***************************************************************************)
MaxGSteps == 4
MaxGAddress == 5
MaxGSize == 8
GTop == MaxGAddress + MaxGSize + 6
GAddr == 0 .. GTop

\* x ^ 3
Xor3(x) == (x \div 4) * 4 + (3 - (x % 4))

\* the offsets the word loop of either function visits: offset, offset + 4,
\* ... while below size
RECURSIVE GWordOffsets(_, _)
GWordOffsets(offset, size) ==
    IF offset < size THEN {offset} \cup GWordOffsets(offset + 4, size) ELSE {}

\* the loops of either function as index sets: the leading bytes i, the word
\* offsets, and the first offset of the trailing loop (offset -= 4 twice on a
\* size_t: below 0 it wraps to a value above size and the loop does not run)
GLoops(address, size) ==
    LET unaligned == address % 4 # 0
        first == IF unaligned THEN 3 - (address % 4) ELSE 0
        words == GWordOffsets(first, size)
        last == first + 4 * Cardinality(words)
    IN  [leading |-> IF unaligned THEN address % 4 .. 3 ELSE {},
         words |-> words,
         trailing |-> IF last # size /\ last - 8 >= 0 THEN last - 8 .. size - 1 ELSE {},
         overrun |-> \/ unaligned /\ size < 4
                     \/ \E o \in words : o + 3 >= size]

\* the word offset whose four bytes hold buffer index j
GWordOf(words, j) == CHOOSE o \in words : j \in o .. o + 3

\* main.c memory_acquire_block_reversed: fresh is what malloc returned
memory_acquire_block_reversed(memory, address, size, fresh) ==
    LET loops == GLoops(address, size)
        b1 == [j \in 0 .. size - 1 |->
                  IF j \in loops.leading THEN memory[Xor3(address + j)] ELSE fresh[j]]
        \* value = bswap_32(value) of the four bytes read at address + offset
        b2 == [j \in 0 .. size - 1 |->
                  IF \E o \in loops.words : j \in o .. o + 3
                  THEN LET o == GWordOf(loops.words, j) IN memory[address + o + (3 - (j - o))]
                  ELSE b1[j]]
    IN  [j \in 0 .. size - 1 |->
            IF j \in loops.trailing THEN memory[Xor3(address + j)] ELSE b2[j]]

\* main.c memory_synchronize_block_reversed: value[o] is what the
\* uninitialised uint32_t of the word loop holds at offset o, slack what lies
\* behind the buffer; the result is the memory and the buffer
memory_synchronize_block_reversed(memory, address, size, buffer, value, slack) ==
    LET loops == GLoops(address, size)
        m1 == [x \in GAddr |->
                  IF \E i \in loops.leading : Xor3(address + i) = x
                  THEN LET i == CHOOSE i \in loops.leading : Xor3(address + i) = x
                       IN  IF i < size THEN buffer[i] ELSE slack
                  ELSE memory[x]]
        \* _memory_write(NULL, address + offset, &value, 4, false)
        m2 == [x \in GAddr |->
                  IF \E o \in loops.words : x - address \in o .. o + 3
                  THEN LET o == GWordOf(loops.words, x - address) IN value[o][x - address - o + 1]
                  ELSE m1[x]]
        \* value = bswap_32(value); memcpy((uint8_t *)buffer + offset, &value, 4)
        b2 == [j \in 0 .. size - 1 |->
                  IF \E o \in loops.words : j \in o .. o + 3
                  THEN LET o == GWordOf(loops.words, j) IN value[o][4 - (j - o)]
                  ELSE buffer[j]]
    IN  [memory |-> [x \in GAddr |->
                        IF \E j \in loops.trailing : Xor3(address + j) = x
                        THEN b2[CHOOSE j \in loops.trailing : Xor3(address + j) = x]
                        ELSE m2[x]],
         buffer |-> b2]

\* ---- a guest memory with one staging buffer ----------------------------
\* the bytes an indeterminate byte is drawn from, next to the byte that is
\* already where it is written
GBytes == {0, 255}
GImage == [x \in GAddr |-> 16 + x]
GNone == [address |-> 0, size |-> 0, bytes |-> << >>]

InitG ==
    /\ cpu = main_start("7-a", ISA_AARCH32, ARM_ENDIAN_LITTLE, FALSE)
    /\ jstack = << >>
    /\ obs = [op |-> "none", memory |-> GImage, block |-> GNone, acquired |-> GImage,
              before |-> << >>, modified |-> {}, overrun |-> FALSE]
    /\ pre = cpu
    /\ steps = 0

GRunning ==
    /\ obs.op # "abort"
    /\ steps < MaxGSteps

\* memory_acquire_block_reversed(address, size)
GAcquire ==
    /\ GRunning
    /\ obs.block.size = 0
    /\ \E address \in 0 .. MaxGAddress, size \in 1 .. MaxGSize, fill \in GBytes :
          obs' = [obs EXCEPT !.op = "acquire",
                             !.block = [address |-> address, size |-> size,
                                        bytes |-> memory_acquire_block_reversed(obs.memory, address, size,
                                                      [j \in 0 .. size - 1 |-> fill])],
                             !.acquired = obs.memory,
                             !.modified = {},
                             !.overrun = @ \/ GLoops(address, size).overrun]
    /\ steps' = steps + 1
    /\ UNCHANGED << cpu, jstack, pre >>

\* the caller stores a byte into the buffer
GModify ==
    /\ GRunning
    /\ obs.block.size > 0
    /\ obs.op \in {"acquire", "modify"}
    /\ \E i \in 0 .. obs.block.size - 1, byte \in {1, 2} :
          obs' = [obs EXCEPT !.op = "modify", !.block.bytes[i] = byte, !.modified = @ \cup {i}]
    /\ steps' = steps + 1
    /\ UNCHANGED << cpu, jstack, pre >>

\* memory_synchronize_block_reversed(address, size, buffer)
GSynchronize ==
    /\ GRunning
    /\ obs.block.size > 0
    /\ LET loops == GLoops(obs.block.address, obs.block.size)
       IN  \E fill \in [loops.words -> GBytes \cup {-1}], slack \in GBytes :
              LET value == [o \in loops.words |->
                               IF fill[o] = -1
                               THEN [k \in 1 .. 4 |-> obs.memory[obs.block.address + o + k - 1]]
                               ELSE [k \in 1 .. 4 |-> fill[o]]]
                  done == memory_synchronize_block_reversed(obs.memory, obs.block.address, obs.block.size,
                                                            obs.block.bytes, value, slack)
              IN  obs' = [obs EXCEPT !.op = "synchronize", !.memory = done.memory,
                                     !.before = obs.block.bytes,
                                     !.block.bytes = done.buffer,
                                     !.overrun = @ \/ loops.overrun]
    /\ steps' = steps + 1
    /\ UNCHANGED << cpu, jstack, pre >>

\* memory_release_block_reversed(address, size, buffer)
GRelease ==
    /\ GRunning
    /\ obs.block.size > 0
    /\ obs' = [obs EXCEPT !.op = "release", !.block = GNone]
    /\ steps' = steps + 1
    /\ UNCHANGED << cpu, jstack, pre >>

\* a write behind the buffer was found by the allocator, which ends the
\* program; the other outcome is that it went unnoticed and the run goes on
GAbort ==
    /\ GRunning
    /\ obs.overrun
    /\ obs.op \in {"acquire", "synchronize", "release"}
    /\ obs' = [obs EXCEPT !.op = "abort"]
    /\ steps' = steps + 1
    /\ UNCHANGED << cpu, jstack, pre >>

NextG ==
    \/ GAcquire
    \/ GModify
    \/ GSynchronize
    \/ GRelease
    \/ GAbort

SpecG == InitG /\ [][NextG]_vars

\* C35: synchronizing an acquired buffer makes guest memory reflect the
\* buffer with the bytes transposed within each 4-byte lane: the byte at
\* (address + i) XOR 3 holds buffer byte i for every modified i, and every
\* other byte of memory is what it was when the buffer was acquired (so an
\* unmodified buffer leaves memory unchanged), for every address and size.
C35_SynchronizeReversed ==
    obs.op = "synchronize" =>
        \A x \in GAddr :
           IF \E i \in obs.modified : Xor3(obs.block.address + i) = x
           THEN \E i \in obs.modified :
                   Xor3(obs.block.address + i) = x /\ obs.memory[x] = obs.before[i]
           ELSE obs.memory[x] = obs.acquired[x]


(***************************************************************************)
(* The monitor after construction and after a store-exclusive, and the     *)
(* value a load-exclusive returns (emu.c arm_emu_init, a32_strexb,         *)
(* a32_strexh, a32_strex, a32_ldrex), under specification SpecX.           *)
(***************************************************************************)
\* C36: immediately after arm_emu_init, before any load-exclusive has
\* executed, the monitor is empty, so a store-exclusive to any address,
\* address 0 included, returns 1 and writes nothing.
C36_FreshMonitorIsEmpty ==
    (steps = 1 /\ obs.op = "strex" /\ ~obs.fault) =>
        /\ MonitorEmpty(pre)
        /\ obs.value = 1
        /\ cpu.memory = pre.memory

\* C37: a store-exclusive that succeeds consumes the reservation: a second
\* store-exclusive to the same address, with no load-exclusive in between,
\* returns 1 and does not write.
C37_StrexConsumesReservation ==
    [][(/\ obs.op = "strex" /\ ~obs.fault /\ obs.value = 0
        /\ obs'.op = "strex" /\ ~obs'.fault
        /\ obs'.address = obs.address /\ obs'.size = obs.size)
           => (obs'.value = 1 /\ cpu'.memory = cpu.memory)]_vars

\* rotate_right32 by a whole number of bytes
RotateRightBytes32(value, count) ==
    LET b == BytesLE32(value)
    IN  WordLE32([i \in 1 .. 4 |-> b[((i - 1 + count) % 4) + 1]])

\* emu.c a32_ldr, pre-indexed without writeback, not in user mode
a32_ldr(c, base, offset) ==
    LET address == BaseOffset(c, base, offset)
    IN  IF a26_check_address(c, address) THEN [cpu |-> a32_address_exception(c), value |-> 0]
        ELSE IF SCTLR_A \in c.sctlr_el1
        THEN (IF address % 4 # 0 THEN [cpu |-> arm_unaligned(c), value |-> 0]
              ELSE [cpu |-> c, value |-> a32_read32(c, address)])
        ELSE IF c.config.version <= ARMV6 /\ SCTLR_U \notin c.sctlr_el1
        THEN [cpu |-> c,
              value |-> RotateRightBytes32(a32_read32(c, address - (address % 4)), address % 4)]
        ELSE [cpu |-> c, value |-> a32_read32(c, address)]

\* C38: LDREX returns the 32-bit word an LDR of the same aligned address
\* returns, LDREXH and LDREXB the zero-extended halfword and byte there.
C38_LdrexLoadsWhatLdrLoads ==
    (obs.op = "ldrex" /\ ~obs.fault) =>
        obs.value = IF obs.size = 4 THEN a32_ldr(pre, 0, obs.address).value
                    ELSE IF obs.size = 2 THEN a32_read16(pre, obs.address)
                    ELSE a32_read8(pre, obs.address)


(***************************************************************************)
(* A64 loads and stores over a 64-bit address space (emu.c a64_ldr,        *)
(* a64_str, a64_read8 .. a64_read64, a64_write8 .. a64_write64).  An       *)
(* address is [hi, lo], its bits 32-63 and its bits 0-31; a value is the   *)
(* sequence of its bytes, least significant first.  The A64 data           *)
(* endianness is little or big, never BE-32.                               *)
(***************************************************************************)
MaxWSteps == 3
MaxWHigh == 1
MaxWLow == 8
WAddr == [hi : 0 .. MaxWHigh, lo : 0 .. MaxWLow + 7]

\* memory->read and memory->write of the host, which take the address as uint64_t
WRead(memory, address, n) == [k \in 1 .. n |-> memory[[hi |-> address.hi, lo |-> address.lo + k - 1]]]
WWrite(memory, address, b) ==
    [a \in WAddr |-> IF a.hi = address.hi /\ a.lo - address.lo \in 0 .. Len(b) - 1
                     THEN b[a.lo - address.lo + 1] ELSE memory[a]]

\* an address passed as uint32_t
Uint32Address(address) == [address EXCEPT !.hi = 0]

\* le16toh .. le64toh and be16toh .. be64toh of the bytes read, htole and
\* htobe of the bytes to write
WOrder(b, endian) == IF endian = ARM_ENDIAN_BIG THEN [k \in 1 .. Len(b) |-> b[Len(b) + 1 - k]] ELSE b

\* emu.c a64_read8 over memory_read8, whose address is uint64_t
a64_read8(memory, address, endian) == WRead(memory, address, 1)

\* emu.c a64_read16, a64_read32, a64_read64 over memory_read16/32/64 and
\* memory_read_bytes16/32/64, whose address is uint32_t
a64_read16(memory, address, endian) == WOrder(WRead(memory, Uint32Address(address), 2), endian)
a64_read32(memory, address, endian) == WOrder(WRead(memory, Uint32Address(address), 4), endian)
a64_read64(memory, address, endian) == WOrder(WRead(memory, Uint32Address(address), 8), endian)

\* emu.c a64_write8 .. a64_write64, alike
a64_write8(memory, address, value, endian) == WWrite(memory, address, SubSeq(value, 1, 1))
a64_write16(memory, address, value, endian) ==
    WWrite(memory, Uint32Address(address), WOrder(SubSeq(value, 1, 2), endian))
a64_write32(memory, address, value, endian) ==
    WWrite(memory, Uint32Address(address), WOrder(SubSeq(value, 1, 4), endian))
a64_write64(memory, address, value, endian) ==
    WWrite(memory, Uint32Address(address), WOrder(SubSeq(value, 1, 8), endian))

\* emu.c a64_ldr, unsigned, without writeback: the value loaded, zero-extended
a64_ldr(memory, endian, bytes, address) ==
    LET value == CASE bytes = 1 -> a64_read8(memory, address, endian)
                   [] bytes = 2 -> a64_read16(memory, address, endian)
                   [] bytes = 4 -> a64_read32(memory, address, endian)
                   [] bytes = 8 -> a64_read64(memory, address, endian)
    IN  [k \in 1 .. 8 |-> IF k <= bytes THEN value[k] ELSE 0]

\* emu.c a64_str without writeback: the memory after the store
a64_str(memory, endian, bytes, value, address) ==
    CASE bytes = 1 -> a64_write8(memory, address, value, endian)
      [] bytes = 2 -> a64_write16(memory, address, value, endian)
      [] bytes = 4 -> a64_write32(memory, address, value, endian)
      [] bytes = 8 -> a64_write64(memory, address, value, endian)

\* ---- loads and stores at addresses below and above 4 GiB -----------------
WBases == [hi : 0 .. MaxWHigh, lo : {0, 4, MaxWLow}]
WValues == { [k \in 1 .. 8 |-> 160 + k], [k \in 1 .. 8 |-> 208 + k] }
WImage == [a \in WAddr |-> 16 + 64 * a.hi + a.lo]

InitW ==
    /\ cpu = main_start("8-a", ISA_AARCH64, ARM_ENDIAN_LITTLE, FALSE)
    /\ jstack = << >>
    /\ \E endian \in {ARM_ENDIAN_LITTLE, ARM_ENDIAN_BIG} :
          obs = [op |-> "none", memory |-> WImage, before |-> WImage, endian |-> endian,
                 address |-> [hi |-> 0, lo |-> 0], bytes |-> 0, value |-> [k \in 1 .. 8 |-> 0]]
    /\ pre = cpu
    /\ steps = 0

\* LDRB, LDRH, LDR Wt, LDR Xt from [Xn]
WLdr ==
    /\ steps < MaxWSteps
    /\ \E address \in WBases, bytes \in {1, 2, 4, 8} :
          obs' = [obs EXCEPT !.op = "ldr", !.address = address, !.bytes = bytes, !.before = obs.memory,
                             !.value = a64_ldr(obs.memory, obs.endian, bytes, address)]
    /\ steps' = steps + 1
    /\ UNCHANGED << cpu, jstack, pre >>

\* STRB, STRH, STR Wt, STR Xt to [Xn]
WStr ==
    /\ steps < MaxWSteps
    /\ \E address \in WBases, bytes \in {1, 2, 4, 8}, value \in WValues :
          obs' = [obs EXCEPT !.op = "str", !.address = address, !.bytes = bytes, !.before = obs.memory,
                             !.value = [k \in 1 .. 8 |-> IF k <= bytes THEN value[k] ELSE 0],
                             !.memory = a64_str(obs.memory, obs.endian, bytes, value, address)]
    /\ steps' = steps + 1
    /\ UNCHANGED << cpu, jstack, pre >>

NextW ==
    \/ WLdr
    \/ WStr

SpecW == InitW /\ [][NextW]_vars

\* the bytes of the access at exactly its 64-bit address, as a value
WExact(memory) ==
    LET b == WOrder(WRead(memory, obs.address, obs.bytes), obs.endian)
    IN  [k \in 1 .. 8 |-> IF k <= obs.bytes THEN b[k] ELSE 0]

\* C39: an A64 load or store of 1, 2, 4 or 8 bytes accesses exactly the
\* bytes at its 64-bit effective address: a load returns them, a store
\* leaves its value there and changes no byte anywhere else, so addresses
\* that differ only in bits 32-63 are different locations for every width.
C39_AccessAtFullAddress ==
    /\ obs.op = "ldr" => obs.value = WExact(obs.memory)
    /\ obs.op = "str" =>
          /\ obs.value = WExact(obs.memory)
          /\ \A a \in WAddr :
                (a.hi # obs.address.hi \/ a.lo - obs.address.lo \notin 0 .. obs.bytes - 1)
                    => obs.memory[a] = obs.before[a]


(***************************************************************************)
(* The interrupt masks on entry to an AArch32 handler (emu.c               *)
(* a32_exception), under specification SpecE.                              *)
(***************************************************************************)
\* C40: a32_exception sets the interrupt mask I on every entry, sets F only
\* on entry to Reset and FIQ, and on ARMv6 and later sets the
\* asynchronous-abort mask A on every entry except Undefined and SVC, for
\* which A keeps its previous value.
C40_MasksOnEntry ==
    (obs.op \in Handlers /\ cpu.entry.fn = "a32_exception") =>
        /\ cpu.pstate.i = 1
        /\ cpu.pstate.f = IF cpu.entry.address \in {A32_VECTOR_RESET, A32_VECTOR_FIQ} THEN 1
                          ELSE pre.pstate.f
        /\ cpu.config.version >= ARMV6 =>
              cpu.pstate.a = IF cpu.entry.address \in {A32_VECTOR_UNDEFINED, A32_VECTOR_SWI}
                             THEN pre.pstate.a ELSE 1

====
